---- MODULE Spec2Model ----
(***************************************************************************)
(* Permit/intent lifecycle and document-association workflow.              *)
(*                                                                         *)
(* The model covers the intent registration form (IntentRegistrationNew),  *)
(* the record store table "documents" / "intent_registrations", the object *)
(* store bucket "documents", and the admin DocumentManagement panel.       *)
(* Every await of the handlers is a separate step, so that the store calls *)
(* of concurrently running handlers interleave as they do in the browser.  *)
(* Every store call may succeed or fail (the record store and the object   *)
(* store are remote).  The delete button of the form's document list only  *)
(* calls the hook's deleteDocument and is outside the model.               *)
(*                                                                         *)
(* The admin user-management page (suspension and reactivation of          *)
(* profiles, one page per admin) and the activity feed of the public       *)
(* dashboard are modelled the same way, each with its own specification.   *)
(***************************************************************************)
EXTENDS Integers, Sequences, FiniteSets, TLC

\* ---------------------------------------------------------------- bounds
\* files the user may upload through the intent form
MaxFiles == 2
\* intent registrations that may be inserted
MaxIntents == 1
\* files the user may upload through the DocumentManagement panel
MaxDmFiles == 2
\* readings of the wall clock by handleSuspendUser (update calls issued)
MaxClock == 2
\* rows of the user in the tables the activity feed reads, all together
MaxRows == 7
\* rows of the user in the tables the KPI cards read, all together
MaxStatRows == 4
\* rows of the table "invoices" a revenue page lists
MaxInvoices == 2
\* calls of updateInvoicePaymentStatus by a revenue page
MaxCalls == 2

\* ------------------------------------------------------------- constants
NoUser == 0
\* the authenticated user (useAuth().user.id)
UserId == 1
\* null / undefined for ids (submittedIntentId, intent_registration_id)
None == 0
\* the <input type="date"> value '' (formData initial value)
EmptyDate == <<>>
\* the date strings the user picks, "YYYY-MM-DD" as <<y, m, d>>
Dates == { <<2024, 12, 31>>, <<2025, 1, 1>> }

VARIABLES
    \* ---- remote stores
    documents,          \* record store, table "documents": set of records
    storage,            \* object store, bucket "documents": set of keys
    intents,            \* record store, table "intent_registrations"
    nextKey,            \* number of storage keys generated so far
    \* ---- ambient auth context
    user,
    \* ---- IntentRegistrationNew component state
    formData,
    submitting,
    uploading,
    submittedIntentId,
    currentIntent,
    pendingDocuments,
    toasts,             \* toasts shown by the running / last handleSubmit
    sub,                \* the running / last handleSubmit invocation
    upl,                \* the running handleFileUpload invocation
    \* ---- DocumentManagement component state
    files,
    dmUploading,
    selectedFile,
    uploadCategory,
    dmToast,            \* the last toast of the panel
    dmUp,               \* the running handleUploadWithCategory invocation
    dmDel,              \* the running / last handleDelete invocation
    \* ---- record store, table "profiles", and the wall clock
    profiles,           \* profile id -> record
    clock,              \* number of readings of new Date() so far
    \* ---- UserManagement component state, one per open admin page
    users,
    userToSuspend,
    suspendDialogOpen,
    suspensionReason,
    suToast,            \* the toast shown by the last step of the page
    su,                 \* the running handleSuspendUser / fetchUsers
    \* ---- record store, tables read by the dashboard
    applications,       \* table "permit_applications"
    invoices,           \* table "invoices"
    notifications,      \* table "notifications"
    \* ---- PublicDashboard component state
    recentActivities,
    feed,               \* the running / last fetchRecentActivities
    stats,
    loading,
    kpi,                \* the running / last fetchDashboardStats
    \* ---- useInvoices hook state (revenue pages)
    invoiceList,        \* the state "invoices" of the hook
    invoicesLoading,    \* the state "loading" of the hook
    inv                 \* the running / last call of the hook

storeVars == <<documents, storage, intents, nextKey>>
formVars == <<formData, submitting, uploading, submittedIntentId,
              currentIntent, pendingDocuments, toasts, sub, upl>>
dmVars == <<files, dmUploading, selectedFile, uploadCategory, dmToast,
            dmUp, dmDel>>
suVars == <<profiles, clock, users, userToSuspend, suspendDialogOpen,
            suspensionReason, suToast, su>>
feedVars == <<applications, invoices, notifications, recentActivities,
              feed>>
\* the components other than the intent form and the document panel
statVars == <<stats, loading, kpi>>
invVars == <<invoiceList, invoicesLoading, inv>>
otherVars == <<suVars, feedVars, statVars, invVars>>
vars == <<documents, storage, intents, nextKey, user, formData, submitting, uploading,
          submittedIntentId, currentIntent, pendingDocuments, toasts, sub, upl,
          files, dmUploading, selectedFile, uploadCategory, dmToast, dmUp,
          dmDel, profiles, clock, users, userToSuspend, suspendDialogOpen,
          suspensionReason, suToast, su, applications, invoices,
          notifications, recentActivities, feed, stats, loading, kpi,
          invoiceList, invoicesLoading, inv>>

\* ------------------------------------------------------------- helpers
Range(s) == { s[i] : i \in 1..Len(s) }

\* The record store assigns every document record a unique id. The model
\* writes the id of the record of the n-th upload as <<n, None, 0>> and the
\* id of the record created by the k-th create of the linkDraftsToIntent
\* call for the intent i, from a draft of the n-th upload, as <<n, i, k>>.
UploadId(n) == <<n, None, 0>>
LinkId(draftId, intentId, k) == <<draftId[1], intentId, k>>
IdBefore(a, b) ==
    \/ a[1] < b[1]
    \/ a[1] = b[1] /\ a[2] < b[2]
    \/ a[1] = b[1] /\ a[2] = b[2] /\ a[3] <= b[3]

\* records of a set in the order of their creation
RECURSIVE OrderById(_)
OrderById(S) ==
    IF S = {} THEN <<>>
    ELSE LET m == CHOOSE d \in S : \A e \in S : IdBefore(d.id, e.id)
         IN <<m>> \o OrderById(S \ {m})

\* ------------------------------------------------------------ dates
\* Date.parse of a date-only ISO string is UTC midnight of that day: the
\* days since 1970-01-01 (the time value in units of 86400000 ms)
DaysFromCivil(y, m, d) ==
    LET yy  == IF m <= 2 THEN y - 1 ELSE y
        era == yy \div 400
        yoe == yy - era * 400
        mp  == (m + 9) % 12
        doy == (153 * mp + 2) \div 5 + d - 1
        doe == yoe * 365 + yoe \div 4 - yoe \div 100 + doy
    IN era * 146097 + doe - 719468

\* new Date(s): an invalid date for '' (its time value is NaN)
NewDate(s) ==
    IF s = EmptyDate THEN [nan |-> TRUE, t |-> 0]
    ELSE [nan |-> FALSE, t |-> DaysFromCivil(s[1], s[2], s[3])]

\* a >= b on two Date objects: the comparison of their time values, false
\* when either is NaN
DateGE(a, b) == ~a.nan /\ ~b.nan /\ a.t >= b.t

EmptyForm == [commencement_date |-> EmptyDate, completion_date |-> EmptyDate]

\* the required date inputs are filled (the browser blocks the submit event
\* of a form with an empty required input)
RequiredFilled(fd) ==
    fd.commencement_date # EmptyDate /\ fd.completion_date # EmptyDate

\* (mutant) equal dates pass
InvalidDates_Strict(fd) ==
    LET a == NewDate(fd.commencement_date)
        b == NewDate(fd.completion_date)
    IN ~a.nan /\ ~b.nan /\ a.t > b.t

\* line 61: the date range is rejected
InvalidDates(fd) ==
    DateGE(NewDate(fd.commencement_date), NewDate(fd.completion_date))

Toast(title, n) == [title |-> title, linked |-> n]

\* ------------------------------------------------- useDocuments (hook)
\* The hook is not part of the sources; its operations follow section 4.2
\* of the specification.

\* a document record of the table "documents"
Doc(id, key, intent, type, owner) ==
    [id |-> id, file_path |-> key, intent_registration_id |-> intent,
     document_type |-> type, user_id |-> owner]

\* "list my draft documents by category": the unlinked documents of the
\* current user with that category, in creation order
fetchUserDraftDocuments(category) ==
    OrderById({ d \in documents : /\ d.user_id = user
                                  /\ d.intent_registration_id = None
                                  /\ d.document_type = category })

\* the storage key of an upload: namespaced by the owning user id, with a
\* generated collision-resistant suffix
StorageKey(owner, n) == <<owner, n>>

\* uploadDraftDocument / uploadDocument: write the blob first, then the
\* document record; outcome is which of the two store calls failed, if any
uploadRecord(intent, type, outcome) ==
    /\ nextKey' = nextKey + 1
    /\ storage' = IF outcome = "blob_failed" THEN storage
                  ELSE storage \cup {StorageKey(user, nextKey + 1)}
    /\ IF outcome = "ok"
       THEN documents' = documents \cup
                  {Doc(UploadId(nextKey + 1), StorageKey(user, nextKey + 1),
                       intent, type, user)}
       ELSE UNCHANGED documents

uploadDraftDocument(category, outcome) == uploadRecord(None, category, outcome)

uploadDocument(intentId, outcome) == uploadRecord(intentId, "", outcome)

\* one iteration of linkDraftsToIntent: the new record carries the storage
\* key of the draft, with the parent id set
linkedRecord(draft, intentId, k) ==
    Doc(LinkId(draft.id, intentId, k), draft.file_path, intentId, "", user)

\* deleteDocumentRecordOnly: the record of that id, not the blob
recordsWithout(id) == { d \in documents : d.id # id }

\* ------------------------------------------- IntentRegistrationNew
IdleSub ==
    [pc |-> "idle", pending |-> <<>>, form |-> EmptyForm, intentId |-> None,
     i |-> 0, linked |-> <<>>, failed |-> {}, toDelete |-> {},
     delFailed |-> {}]

IdleUpl == [pc |-> "idle", intentId |-> None, left |-> 0]

\* useState<any>(null) of currentIntent
NoIntent ==
    [id |-> None, user_id |-> NoUser, status |-> "",
     commencement_date |-> EmptyDate, completion_date |-> EmptyDate]

\* (mutant) the record is inserted as a draft
IntentRecord_Draft(id, u, fd) ==
    [id |-> id, user_id |-> u, status |-> "draft",
     commencement_date |-> fd.commencement_date,
     completion_date |-> fd.completion_date]

\* lines 75-84: the record handed to the insert; the store assigns the id
IntentRecord(id, u, fd) ==
    [id |-> id, user_id |-> u, status |-> "pending",
     commencement_date |-> fd.commencement_date,
     completion_date |-> fd.completion_date]

\* (mutant) every draft is handed over twice
DraftsToLink_Twice(pending) == pending \o pending

\* line 95: the drafts handed to linkDraftsToIntent
DraftsToLink(pending) == pending

\* (mutant) the list of pending drafts is not cleared
PendingAfterLink_Kept(pending) == pending

\* line 98: setPendingDocuments([])
PendingAfterLink(pending) == <<>>

\* (mutant) setSubmitting(true) is called before the validations
RejectSubmit_Submitting(title) ==
    /\ toasts' = <<Toast(title, 0)>>
    /\ sub' = IdleSub
    /\ submitting' = TRUE

\* lines 53-58 and 62-67: a validation toast and the return
RejectSubmit(title) ==
    /\ toasts' = <<Toast(title, 0)>>
    /\ sub' = IdleSub
    /\ UNCHANGED submitting

\* line 97: the drafts whose record handleSubmit deletes after linking
DraftsToDelete(pending, linked) == { pending[k].id : k \in 1..Len(pending) }

\* (mutant) the end of a successful handleSubmit reports a failure
SubmitSucceeds_AsFailure ==
    /\ toasts' = Append(toasts, Toast("Submission Failed", 0))
    /\ formData' = EmptyForm
    /\ submitting' = FALSE

\* lines 103-115 and 123-125: the end of a successful handleSubmit
SubmitSucceeds ==
    /\ toasts' = Append(toasts, Toast("Intent Registration Submitted", 0))
    /\ formData' = EmptyForm
    /\ submitting' = FALSE

\* (mutant) finally does not reset the flag
SubmitFails_StillSubmitting ==
    /\ toasts' = Append(toasts, Toast("Submission Failed", 0))
    /\ submitting' = TRUE

SubmitFails_Silent ==
    /\ toasts' = toasts
    /\ submitting' = FALSE

\* lines 116-125: the catch block and finally
SubmitFails ==
    /\ toasts' = Append(toasts, Toast("Submission Failed", 0))
    /\ submitting' = FALSE

\* the user edits a date input (lines 308-315, 323-330)
SetFormData ==
    /\ \E f \in {"commencement_date", "completion_date"}, v \in Dates :
          formData' = [formData EXCEPT ![f] = v]
    /\ UNCHANGED <<storeVars, user, submitting, uploading, submittedIntentId,
                   currentIntent, pendingDocuments, toasts, sub, upl, dmVars, otherVars>>

\* handleSubmit, lines 49-70: the click, the two validations, setSubmitting
\* and the insert request (answered in handleSubmitInsert)
handleSubmit ==
    /\ sub.pc = "idle"
    /\ ~submitting
    /\ RequiredFilled(formData)
    /\ Cardinality(intents) < MaxIntents
    /\ IF user = NoUser
       THEN RejectSubmit("Authentication Required")
       ELSE IF InvalidDates(formData)
       THEN RejectSubmit("Invalid Dates")
       ELSE /\ toasts' = <<>>
            /\ submitting' = TRUE
            /\ sub' = [IdleSub EXCEPT !.pc = "insert",
                                      !.pending = pendingDocuments,
                                      !.form = formData]
    /\ UNCHANGED <<storeVars, user, formData, uploading, submittedIntentId,
                   currentIntent, pendingDocuments, upl, dmVars, otherVars>>

\* handleSubmit, lines 73-94 (and 103-125 when there is nothing to link):
\* the answer of the insert
handleSubmitInsert ==
    /\ sub.pc = "insert"
    /\ \E ok \in BOOLEAN :
        IF ~ok
        THEN /\ SubmitFails
             /\ sub' = IdleSub
             /\ UNCHANGED <<intents, submittedIntentId, currentIntent,
                            formData>>
        ELSE LET data == IntentRecord(Cardinality(intents) + 1, user, sub.form)
             IN /\ intents' = intents \cup {data}
                /\ submittedIntentId' = data.id
                /\ currentIntent' = data
                /\ IF Len(sub.pending) > 0
                   THEN /\ sub' = [sub EXCEPT !.pc = "link",
                                              !.intentId = data.id, !.i = 1]
                        /\ UNCHANGED <<toasts, formData, submitting>>
                   ELSE /\ sub' = IdleSub
                        /\ SubmitSucceeds
    /\ UNCHANGED <<documents, storage, nextKey, user, uploading,
                   pendingDocuments, upl, dmVars, otherVars>>

\* handleSubmit, line 95: one create of linkDraftsToIntent; a failed create
\* is logged and the next draft is tried
handleSubmitLink ==
    /\ sub.pc = "link"
    /\ LET draft == DraftsToLink(sub.pending)[sub.i]
           last == sub.i = Len(DraftsToLink(sub.pending))
       IN \E ok \in BOOLEAN :
           /\ IF ok
              THEN documents' = documents \cup
                                  {linkedRecord(draft, sub.intentId, sub.i)}
              ELSE UNCHANGED documents
           /\ LET linked == IF ok THEN Append(sub.linked,
                                          linkedRecord(draft, sub.intentId, sub.i))
                            ELSE sub.linked
              IN sub' = [sub EXCEPT
                    !.linked = linked,
                    !.failed = IF ok THEN @ ELSE @ \cup {draft.id},
                    !.i = IF last THEN 0 ELSE @ + 1,
                    !.pc = IF last THEN "delete" ELSE "link",
                    !.toDelete = IF last
                                 THEN DraftsToDelete(sub.pending, linked)
                                 ELSE @]
    /\ UNCHANGED <<storage, intents, nextKey, user, formData, submitting,
                   uploading, submittedIntentId, currentIntent,
                   pendingDocuments, toasts, upl, dmVars, otherVars>>

\* handleSubmit, line 97: one of the deleteDocumentRecordOnly calls that
\* Promise.all started; they are answered in any order, a failed delete is
\* logged
handleSubmitDelete ==
    /\ sub.pc = "delete"
    /\ \E id \in sub.toDelete, ok \in BOOLEAN :
        /\ documents' = IF ok THEN recordsWithout(id) ELSE documents
        /\ sub' = [sub EXCEPT !.toDelete = @ \ {id},
                              !.delFailed = IF ok THEN @ ELSE @ \cup {id}]
    /\ UNCHANGED <<storage, intents, nextKey, user, formData,
                   submitting, uploading, submittedIntentId, currentIntent,
                   pendingDocuments, toasts, upl, dmVars, otherVars>>

\* handleSubmit, lines 98-100: every delete was answered
handleSubmitLinked ==
    /\ sub.pc = "delete"
    /\ sub.toDelete = {}
    /\ pendingDocuments' = PendingAfterLink(pendingDocuments)
    /\ toasts' = Append(toasts, Toast("Documents Linked", Len(sub.linked)))
    /\ sub' = [sub EXCEPT !.pc = "refresh"]
    /\ UNCHANGED <<storeVars, user, formData, submitting, uploading,
                   submittedIntentId, currentIntent, upl, dmVars, otherVars>>

\* handleSubmit, lines 100-125: refreshDocuments answered
handleSubmitRefreshed ==
    /\ sub.pc = "refresh"
    /\ SubmitSucceeds
    /\ sub' = IdleSub
    /\ UNCHANGED <<storeVars, user, uploading, submittedIntentId,
                   currentIntent, pendingDocuments, upl, dmVars, otherVars>>

UploadOutcomes == {"ok", "blob_failed", "record_failed"}

\* handleFileUpload, lines 128-134: the files are chosen, setUploading
handleFileUpload ==
    /\ upl.pc = "idle"
    /\ ~uploading
    /\ user # NoUser
    /\ \E n \in 1..(MaxFiles - nextKey) :
          upl' = [pc |-> "files", intentId |-> submittedIntentId, left |-> n]
    /\ uploading' = TRUE
    /\ UNCHANGED <<storeVars, user, formData, submitting, submittedIntentId,
                   currentIntent, pendingDocuments, toasts, sub, dmVars, otherVars>>

\* handleFileUpload, lines 134-141 and 145-150: one file of the loop. A
\* failed upload either throws into the catch block, which ends the loop, or
\* is reported by the hook and the loop goes on.
handleFileUploadOne ==
    /\ upl.pc = "files"
    /\ \E outcome \in UploadOutcomes, throws \in BOOLEAN :
        /\ (outcome = "ok") => ~throws
        /\ IF upl.intentId # None
           THEN uploadDocument(upl.intentId, outcome)
           ELSE uploadDraftDocument("intent_draft", outcome)
        /\ IF throws \/ (upl.left = 1 /\ upl.intentId # None)
           THEN upl' = IdleUpl /\ uploading' = FALSE
           ELSE /\ upl' = IF upl.left > 1
                          THEN [upl EXCEPT !.left = @ - 1]
                          ELSE [upl EXCEPT !.left = 0, !.pc = "fetch"]
                /\ UNCHANGED uploading
    /\ UNCHANGED <<intents, user, formData, submitting, submittedIntentId,
                   currentIntent, pendingDocuments, toasts, sub, dmVars, otherVars>>

\* handleFileUpload, lines 142-143 and 147-150: the drafts are re-queried
handleFileUploadFetched ==
    /\ upl.pc = "fetch"
    /\ pendingDocuments' = fetchUserDraftDocuments("intent_draft")
    /\ uploading' = FALSE
    /\ upl' = IdleUpl
    /\ UNCHANGED <<storeVars, user, formData, submitting, submittedIntentId,
                   currentIntent, toasts, sub, dmVars, otherVars>>

\* the onClick of "Clear Form", lines 443-453
ClearForm ==
    /\ formData' = EmptyForm
    /\ submittedIntentId' = None
    /\ UNCHANGED <<storeVars, user, submitting, uploading, currentIntent,
                   pendingDocuments, toasts, sub, upl, dmVars, otherVars>>

\* the component is mounted again while no handler runs: the state of
\* lines 21-37 and the loadDrafts effect of lines 38-47
loadDrafts ==
    /\ sub.pc = "idle"
    /\ upl.pc = "idle"
    /\ formData' = EmptyForm
    /\ submitting' = FALSE
    /\ uploading' = FALSE
    /\ submittedIntentId' = None
    /\ currentIntent' = NoIntent
    /\ pendingDocuments' = IF user = NoUser THEN <<>>
                           ELSE fetchUserDraftDocuments("intent_draft")
    /\ toasts' = <<>>
    /\ sub' = IdleSub
    /\ upl' = IdleUpl
    /\ UNCHANGED <<storeVars, user, dmVars, otherVars>>

\* ------------------------------------------------- DocumentManagement
\* (src/components/admin/UserManagement.tsx, lines 541-1046)
IdleDmUp == [pc |-> "idle", key |-> <<>>, n |-> 0, category |-> ""]

IdleDmDel ==
    [pc |-> "idle", id |-> <<>>, key |-> <<>>, calls |-> <<>>,
     storageError |-> FALSE, existed |-> FALSE]

\* lines 510-521: the categories offered by the upload dialog
uploadCategories == {"monitoring", "safety"}

\* records of a set, latest first (order('uploaded_at', ascending: false))
RECURSIVE OrderByIdDesc(_)
OrderByIdDesc(S) ==
    IF S = {} THEN <<>>
    ELSE LET m == CHOOSE d \in S : \A e \in S : IdBefore(e.id, d.id)
         IN <<m>> \o OrderByIdDesc(S \ {m})

\* fetchDocuments, lines 560-582, called with a user: the new value of files
\* and of the last toast, given the last toast of the caller
fetchDocuments(ok, docs) ==
    IF ok THEN OrderByIdDesc({ d \in docs : d.user_id = user })
    ELSE files

\* line 605: the storage key of an upload of the panel
filePath(owner, n) == StorageKey(owner, n)

\* (mutant) the record delete is requested whatever the blob removal answers
AfterStorageRemove_Ignored(storageError) == "delete"

\* lines 696 and 703: where handleDelete goes after a store call
AfterStorageRemove(storageError) == IF storageError THEN "catch" ELSE "delete"
AfterRecordDelete(dbError) == IF dbError THEN "catch" ELSE "fetch"

\* handleFileSelect, lines 584-589
handleFileSelect ==
    /\ ~selectedFile
    /\ selectedFile' = TRUE
    /\ UNCHANGED <<storeVars, user, formVars, otherVars, files, dmUploading,
                   uploadCategory, dmToast, dmUp, dmDel>>

\* handleRemoveFile, lines 652-657
handleRemoveFile ==
    /\ selectedFile
    /\ selectedFile' = FALSE
    /\ UNCHANGED <<storeVars, user, formVars, otherVars, files, dmUploading,
                   uploadCategory, dmToast, dmUp, dmDel>>

\* the category select of the dialog, line 973
setUploadCategory ==
    /\ \E c \in uploadCategories : c # uploadCategory /\ uploadCategory' = c
    /\ UNCHANGED <<storeVars, user, formVars, otherVars, files, dmUploading,
                   selectedFile, dmToast, dmUp, dmDel>>

\* handleUploadWithCategory, lines 591-609: the click (the button is
\* disabled without a file or a category, and while uploading), the
\* validation, setUploading and the blob upload request
handleUploadWithCategory ==
    /\ dmUp.pc = "idle"
    /\ selectedFile /\ uploadCategory # "" /\ ~dmUploading
    /\ nextKey < MaxDmFiles
    /\ IF user = NoUser
       THEN /\ dmToast' = "Missing Information"
            /\ UNCHANGED <<dmUploading, dmUp, nextKey>>
       ELSE /\ dmUploading' = TRUE
            /\ nextKey' = nextKey + 1
            /\ dmUp' = [pc |-> "upload", key |-> filePath(user, nextKey + 1),
                        n |-> nextKey + 1, category |-> uploadCategory]
            /\ UNCHANGED dmToast
    /\ UNCHANGED <<documents, storage, intents, user, formVars, otherVars, files,
                   selectedFile, uploadCategory, dmDel>>

\* (mutant) the insert is requested whatever the blob upload answers
AfterBlobUpload_Ignored(uploadError) == "insert"

\* line 611: where handleUploadWithCategory goes after the blob upload
AfterBlobUpload(uploadError) == IF uploadError THEN "catch" ELSE "insert"

\* lines 640-649: the catch block and finally of handleUploadWithCategory
UploadFails ==
    /\ dmToast' = "Upload Failed"
    /\ dmUploading' = FALSE
    /\ dmUp' = IdleDmUp

\* handleUploadWithCategory, lines 607-622: the answer of the blob upload,
\* and the insert request
handleUploadStored ==
    /\ dmUp.pc = "upload"
    /\ \E uploadError \in BOOLEAN :
        /\ storage' = IF uploadError THEN storage
                      ELSE storage \cup {dmUp.key}
        /\ IF AfterBlobUpload(uploadError) = "catch"
           THEN UploadFails
           ELSE /\ dmUp' = [dmUp EXCEPT !.pc = "insert"]
                /\ UNCHANGED <<dmToast, dmUploading>>
    /\ UNCHANGED <<documents, intents, nextKey, user, formVars, otherVars, files,
                   selectedFile, uploadCategory, dmDel>>

\* handleUploadWithCategory, lines 613-626: the answer of the insert
handleUploadInserted ==
    /\ dmUp.pc = "insert"
    /\ \E dbError \in BOOLEAN :
        IF dbError
        THEN UploadFails /\ UNCHANGED documents
        ELSE /\ documents' = documents \cup
                   {Doc(UploadId(dmUp.n), dmUp.key, None, dmUp.category, user)}
             /\ dmUp' = [dmUp EXCEPT !.pc = "fetch"]
             /\ UNCHANGED <<dmToast, dmUploading>>
    /\ UNCHANGED <<storage, intents, nextKey, user, formVars, otherVars, files,
                   selectedFile, uploadCategory, dmDel>>

\* handleUploadWithCategory, lines 626-649: fetchDocuments answered
handleUploadFetched ==
    /\ dmUp.pc = "fetch"
    /\ \E ok \in BOOLEAN : files' = fetchDocuments(ok, documents)
    /\ dmToast' = "Upload Successful"
    /\ selectedFile' = FALSE
    /\ uploadCategory' = ""
    /\ dmUploading' = FALSE
    /\ dmUp' = IdleDmUp
    /\ UNCHANGED <<storeVars, user, formVars, otherVars, dmDel>>

\* handleDelete, lines 690-694: the click on a listed file and the blob
\* removal request
handleDelete ==
    /\ dmDel.pc = "idle"
    /\ \E f \in Range(files) :
        dmDel' = [pc |-> "remove", id |-> f.id, key |-> f.file_path,
                  calls |-> <<"storage.remove">>, storageError |-> FALSE,
                  existed |-> \E d \in documents : d.id = f.id]
    /\ UNCHANGED <<storeVars, user, formVars, otherVars, files, dmUploading,
                   selectedFile, uploadCategory, dmToast, dmUp>>

\* handleDelete, lines 692-701 and 711-718: the answer of the blob removal
handleDeleteRemoved ==
    /\ dmDel.pc = "remove"
    /\ \E storageError \in BOOLEAN :
        /\ storage' = IF storageError THEN storage ELSE storage \ {dmDel.key}
        /\ IF AfterStorageRemove(storageError) = "catch"
           THEN /\ dmToast' = "Deletion Failed"
                /\ dmDel' = [dmDel EXCEPT !.pc = "idle",
                                          !.storageError = storageError]
           ELSE /\ dmDel' = [dmDel EXCEPT
                               !.pc = "delete",
                               !.storageError = storageError,
                               !.calls = Append(@, "documents.delete")]
                /\ UNCHANGED dmToast
    /\ UNCHANGED <<documents, intents, nextKey, user, formVars, otherVars, files,
                   dmUploading, selectedFile, uploadCategory, dmUp>>

\* handleDelete, lines 698-705 and 711-718: the answer of the record delete
handleDeleteDeleted ==
    /\ dmDel.pc = "delete"
    /\ \E dbError \in BOOLEAN :
        /\ documents' = IF dbError THEN documents
                        ELSE recordsWithout(dmDel.id)
        /\ IF AfterRecordDelete(dbError) = "catch"
           THEN /\ dmToast' = "Deletion Failed"
                /\ dmDel' = [dmDel EXCEPT !.pc = "idle"]
           ELSE /\ dmDel' = [dmDel EXCEPT !.pc = "fetch"]
                /\ UNCHANGED dmToast
    /\ UNCHANGED <<storage, intents, nextKey, user, formVars, otherVars, files,
                   dmUploading, selectedFile, uploadCategory, dmUp>>

\* handleDelete, lines 705-710: fetchDocuments answered
handleDeleteFetched ==
    /\ dmDel.pc = "fetch"
    /\ \E ok \in BOOLEAN : files' = fetchDocuments(ok, documents)
    /\ dmToast' = "File Deleted"
    /\ dmDel' = [dmDel EXCEPT !.pc = "idle"]
    /\ UNCHANGED <<storeVars, user, formVars, otherVars, dmUploading, selectedFile,
                   uploadCategory, dmUp>>

\* ------------------------------------------- UserManagement (admin)
\* The table "profiles" holds one super_admin, one admin and one public
\* user.  The super_admin and the admin each have the user-management page
\* open in their own browser; the page of profile a is the session a.
ProfileIds == {1, 2, 3}
\* the super_admin and the admin have the page open
AdminPages == {1, 2}
\* the admin and the public user have it open
ViewerPages == {2, 3}
\* the profiles that have the page open
Sessions == DOMAIN su
UserTypeOf(id) ==
    CASE id = 1 -> "super_admin"
      [] id = 2 -> "admin"
      [] OTHER -> "public"
\* profiles.user_id, the auth id of the profile (distinct from profiles.id)
AuthIdOf(id) == 10 + id

\* Texts are sequences of characters; NullText is the null of a text column.
NullText == <<"null">>
\* the texts an admin types into the reason field
Reasons == { <<>>, <<" ">>, <<"x", " ">> }

RECURSIVE trimStart(_)
trimStart(s) ==
    IF s # <<>> /\ Head(s) = " " THEN trimStart(Tail(s)) ELSE s
RECURSIVE trimEnd(_)
trimEnd(s) ==
    IF s # <<>> /\ s[Len(s)] = " "
    THEN trimEnd(SubSeq(s, 1, Len(s) - 1))
    ELSE s
\* String.prototype.trim
trim(s) == trimEnd(trimStart(s))

\* a row of "profiles" (the columns the page reads or writes)
Profile(id, is_suspended, suspended_at, suspended_by, suspension_reason) ==
    [id |-> id, user_id |-> AuthIdOf(id), user_type |-> UserTypeOf(id),
     is_suspended |-> is_suspended, suspended_at |-> suspended_at,
     suspended_by |-> suspended_by, suspension_reason |-> suspension_reason]
ActiveProfile(id) == Profile(id, FALSE, None, None, NullText)
\* userToSuspend = null
NoProfile == ActiveProfile(None)

\* useAuth().profile of the session
profileOf(a) == profiles[a]

\* the running handleSuspendUser of a page
IdleSu == [pc |-> "idle", id |-> None, update |-> ActiveProfile(None)]

\* (mutant) the list is fetched for every profile
AccessDenied_Never(p) == FALSE

\* line 80: fetchUsers is refused to everyone but admin and super_admin
AccessDenied(p) == p.user_type # "admin" /\ p.user_type # "super_admin"

\* lines 78-108: the user list and the toast after fetchUsers
fetchUsers(a, ok) ==
    IF AccessDenied(profileOf(a)) THEN [users |-> users[a], toast |-> "Access Denied"]
    ELSE IF ok THEN [users |-> { profiles[id] : id \in ProfileIds },
                     toast |-> ""]
    ELSE [users |-> users[a], toast |-> "Error"]

\* line 458: the Suspend / Reactivate menu item is disabled
SuspendItemDisabled(u) == u.user_type = "super_admin"

IsProtected_Never(u) == FALSE

\* line 136
IsProtected(u) == u.user_type = "super_admin"

ReasonMissing_NoTrim(u, reason) == ~u.is_suspended /\ reason = <<>>

\* line 145
ReasonMissing(u, reason) == ~u.is_suspended /\ trim(reason) = <<>>

\* line 383: the Confirm button is disabled
ConfirmDisabled(u, reason) == ~u.is_suspended /\ reason = <<>>

SuspensionUpdate_NoActor(isSuspending, now, by, reason) ==
    [is_suspended |-> isSuspending,
     suspended_at |-> IF isSuspending THEN now ELSE None,
     suspended_by |-> None,
     suspension_reason |-> IF isSuspending THEN reason ELSE NullText]

SuspensionUpdate_KeepsReason(isSuspending, now, by, reason) ==
    [is_suspended |-> isSuspending,
     suspended_at |-> IF isSuspending THEN now ELSE None,
     suspended_by |-> IF isSuspending THEN by ELSE None,
     suspension_reason |-> reason]

SuspensionUpdate_NoTime(isSuspending, now, by, reason) ==
    [is_suspended |-> isSuspending,
     suspended_at |-> None,
     suspended_by |-> IF isSuspending THEN by ELSE None,
     suspension_reason |-> IF isSuspending THEN reason ELSE NullText]

\* lines 158-163: the columns of the update call
SuspensionUpdate(isSuspending, now, by, reason) ==
    [is_suspended |-> isSuspending,
     suspended_at |-> IF isSuspending THEN now ELSE None,
     suspended_by |-> IF isSuspending THEN by ELSE None,
     suspension_reason |-> IF isSuspending THEN reason ELSE NullText]

\* (mutant) the update leaves the two actor columns as stored
updated_FlagAndReason(table, id, columns) ==
    [ i \in DOMAIN table |->
        IF i = id
        THEN [table[i] EXCEPT !.is_suspended = columns.is_suspended,
                              !.suspension_reason = columns.suspension_reason]
        ELSE table[i] ]

\* .update(columns).eq('id', id) applied to the table
updated(table, id, columns) ==
    [ i \in DOMAIN table |->
        IF i = id
        THEN [table[i] EXCEPT !.is_suspended = columns.is_suspended,
                              !.suspended_at = columns.suspended_at,
                              !.suspended_by = columns.suspended_by,
                              !.suspension_reason = columns.suspension_reason]
        ELSE table[i] ]

\* lines 182-183
CloseDialog(a) ==
    /\ suspendDialogOpen' = [suspendDialogOpen EXCEPT ![a] = FALSE]
    /\ userToSuspend' = [userToSuspend EXCEPT ![a] = NoProfile]

\* the page is mounted: the effect of line 70 runs fetchUsers
mountFetchUsers ==
    \E a \in Sessions, ok \in BOOLEAN :
        /\ su[a].pc = "mount"
        /\ users' = [users EXCEPT ![a] = fetchUsers(a, ok).users]
        /\ suToast' = [suToast EXCEPT ![a] = fetchUsers(a, ok).toast]
        /\ su' = [su EXCEPT ![a] = IdleSu]
        /\ UNCHANGED <<profiles, clock, userToSuspend, suspendDialogOpen,
                       suspensionReason>>
        /\ UNCHANGED <<storeVars, user, formVars, dmVars, feedVars, statVars, invVars>>

\* lines 357-363, 458: the menu item of a row is chosen.  A disabled item
\* ignores the pointer; its onClick is still the one the row passes, so a
\* click dispatched to it reaches onSuspend.
onSuspend ==
    \E a \in Sessions, pointer \in BOOLEAN :
        \E u \in users[a] :
            /\ su[a].pc = "idle"
            /\ ~suspendDialogOpen[a]
            /\ pointer => ~SuspendItemDisabled(u)
            /\ userToSuspend' = [userToSuspend EXCEPT ![a] = u]
            /\ suspendDialogOpen' = [suspendDialogOpen EXCEPT ![a] = TRUE]
            /\ suToast' = [suToast EXCEPT ![a] = ""]
            /\ UNCHANGED <<profiles, clock, users, suspensionReason, su>>
            /\ UNCHANGED <<storeVars, user, formVars, dmVars, feedVars, statVars, invVars>>

\* lines 375-380: the reason field, shown when the user is not suspended
setSuspensionReason ==
    \E a \in Sessions, text \in Reasons :
        /\ su[a].pc = "idle"
        /\ suspendDialogOpen[a]
        /\ ~userToSuspend[a].is_suspended
        /\ text # suspensionReason[a]
        /\ suspensionReason' = [suspensionReason EXCEPT ![a] = text]
        /\ suToast' = [suToast EXCEPT ![a] = ""]
        /\ UNCHANGED <<profiles, clock, users, userToSuspend,
                       suspendDialogOpen, su>>
        /\ UNCHANGED <<storeVars, user, formVars, dmVars, feedVars, statVars, invVars>>

\* line 382: Cancel closes the dialog (onOpenChange) and nothing else
cancelSuspend ==
    \E a \in Sessions :
        /\ su[a].pc = "idle"
        /\ suspendDialogOpen[a]
        /\ suspendDialogOpen' = [suspendDialogOpen EXCEPT ![a] = FALSE]
        /\ suToast' = [suToast EXCEPT ![a] = ""]
        /\ UNCHANGED <<profiles, clock, users, userToSuspend,
                       suspensionReason, su>>
        /\ UNCHANGED <<storeVars, user, formVars, dmVars, feedVars, statVars, invVars>>

\* lines 134-152: what handleSuspendUser does with the chosen user and the
\* typed reason: returns, shows a toast and returns, or calls the store
SuspendOutcome(u, reason) ==
    IF u = NoProfile THEN "return"
    ELSE IF IsProtected(u) THEN "Cannot suspend Super Admin"
    ELSE IF ReasonMissing(u, reason) THEN "Reason Required"
    ELSE "update"

\* lines 133-164: Confirm is pressed; the update call is sent
handleSuspendUser ==
    \E a \in Sessions :
        LET u == userToSuspend[a]
            reason == suspensionReason[a]
            outcome == SuspendOutcome(u, reason)
            isSuspending == ~u.is_suspended
        IN /\ su[a].pc = "idle"
           /\ suspendDialogOpen[a]
           /\ ~ConfirmDisabled(u, reason)
           /\ outcome # "return"
           /\ IF outcome = "update"
              THEN /\ clock < MaxClock
                   /\ clock' = clock + 1
                   /\ su' = [su EXCEPT ![a] =
                                [pc |-> "update", id |-> u.id,
                                 update |-> SuspensionUpdate(isSuspending,
                                     clock + 1, profileOf(a).user_id, reason)]]
                   /\ suToast' = [suToast EXCEPT ![a] = ""]
              ELSE /\ suToast' = [suToast EXCEPT ![a] = outcome]
                   /\ UNCHANGED <<clock, su>>
           /\ UNCHANGED <<profiles, users, userToSuspend, suspendDialogOpen,
                          suspensionReason>>
           /\ UNCHANGED <<storeVars, user, formVars, dmVars, feedVars, statVars, invVars>>

\* lines 156-166, 174-183: the store answers the update call
handleSuspendUserUpdated ==
    \E a \in Sessions, ok \in BOOLEAN :
        /\ su[a].pc = "update"
        /\ IF ok
           THEN /\ profiles' = updated(profiles, su[a].id, su[a].update)
                /\ su' = [su EXCEPT ![a].pc = "fetch"]
                /\ UNCHANGED <<suToast, suspendDialogOpen, userToSuspend>>
           ELSE /\ suToast' = [suToast EXCEPT ![a] = "Error"]
                /\ CloseDialog(a)
                /\ su' = [su EXCEPT ![a] = IdleSu]
                /\ UNCHANGED profiles
        /\ UNCHANGED <<clock, users, suspensionReason>>
        /\ UNCHANGED <<storeVars, user, formVars, dmVars, feedVars, statVars, invVars>>

\* lines 168-173, 182-183: fetchUsers has answered after the update
handleSuspendUserFetched ==
    \E a \in Sessions, ok \in BOOLEAN :
        /\ su[a].pc = "fetch"
        /\ users' = [users EXCEPT ![a] = fetchUsers(a, ok).users]
        /\ suToast' = [suToast EXCEPT ![a] = "Success"]
        /\ suspensionReason' = [suspensionReason EXCEPT ![a] = <<>>]
        /\ CloseDialog(a)
        /\ su' = [su EXCEPT ![a] = IdleSu]
        /\ UNCHANGED <<profiles, clock>>
        /\ UNCHANGED <<storeVars, user, formVars, dmVars, feedVars, statVars, invVars>>


\* ------------------------------------------------- PublicDashboard
\* limits of the three queries and length of the feed
AppLimit == 5
InvoiceLimit == 3
NotificationLimit == 3
FeedLength == 6

\* A timestamp column is rendered "YYYY-MM-DDTHH:..." and is modelled as
\* <<y, m, d, h>>; the k-th hour from 2024-12-31 22:00.
StampAt(k) ==
    IF k < 2 THEN <<2024, 12, 31, 22 + k>>
    ELSE <<2025, 1, 1 + (k - 2) \div 24, (k - 2) % 24>>

\* new Date(timestamp).getTime(), in hours
getTime(ts) == DaysFromCivil(ts[1], ts[2], ts[3]) * 24 + ts[4]

\* the statuses a row of permit_applications may carry: the nine of the
\* enum and three other strings
AllStatuses ==
    << "draft", "submitted", "under_initial_review",
       "initial_assessment_passed", "pending_technical_assessment",
       "under_technical_assessment", "requires_clarification", "approved",
       "rejected", "", "cancelled", "Approved" >>

getStatusUpdateTitle_NoDraft(status) ==
    CASE status = "approved" -> "Application Approved"
      [] status = "rejected" -> "Application Rejected"
      [] status = "under_initial_review" -> "Under Initial Review"
      [] status = "initial_assessment_passed" -> "Initial Assessment Passed"
      [] status = "pending_technical_assessment" -> "Pending Technical Assessment"
      [] status = "under_technical_assessment" -> "Under Technical Assessment"
      [] status = "requires_clarification" -> "Requires Clarification"
      [] status = "submitted" -> "Application Submitted"
      [] OTHER -> "Application Updated"

\* lines 248-261
getStatusUpdateTitle(status) ==
    CASE status = "approved" -> "Application Approved"
      [] status = "rejected" -> "Application Rejected"
      [] status = "under_initial_review" -> "Under Initial Review"
      [] status = "initial_assessment_passed" -> "Initial Assessment Passed"
      [] status = "pending_technical_assessment" -> "Pending Technical Assessment"
      [] status = "under_technical_assessment" -> "Under Technical Assessment"
      [] status = "requires_clarification" -> "Requires Clarification"
      [] status = "submitted" -> "Application Submitted"
      [] status = "draft" -> "Draft Application"
      [] OTHER -> "Application Updated"

\* the null of a timestamp column
NullStamp == <<>>

\* rows of the three tables; id is unique over the three
ApplicationRow(id, status, at) ==
    [id |-> id, user_id |-> UserId, status |-> status, updated_at |-> at,
     initial_assessments |-> 1]
InvoiceRow(id, status, payment_status, amount, due, at) ==
    [id |-> id, user_id |-> UserId, status |-> status,
     payment_status |-> payment_status, amount |-> amount, due_date |-> due,
     created_at |-> at, updated_at |-> at, paid_date |-> NullStamp,
     follow_up_notes |-> NullText, follow_up_date |-> NullStamp]
NotificationRow(id, is_read, at) ==
    [id |-> id, user_id |-> UserId, title |-> "Notification",
     is_read |-> is_read, created_at |-> at]

\* .order(column, { ascending: false }): rows by time, latest first (the
\* rows of one table have different times; equal times would go by id)
RECURSIVE OrderDesc(_, _)
OrderDesc(S, column) ==
    IF S = {} THEN <<>>
    ELSE LET m == CHOOSE r \in S : \A q \in S :
                      \/ getTime(r[column]) > getTime(q[column])
                      \/ /\ getTime(r[column]) = getTime(q[column])
                         /\ r.id >= q.id
         IN <<m>> \o OrderDesc(S \ {m}, column)

\* (mutant) the query returns every row
Limit_None(rows, n) == rows

\* .limit(n)
Limit(rows, n) == SubSeq(rows, 1, IF Len(rows) < n THEN Len(rows) ELSE n)

\* lines 152-169: applications of the user that have an initial assessment
selectApplications(u) ==
    Limit(OrderDesc({ r \in applications :
                        r.user_id = u /\ r.initial_assessments > 0 },
                    "updated_at"), AppLimit)
\* lines 195-200
selectInvoices(u) ==
    Limit(OrderDesc({ r \in invoices : r.user_id = u }, "updated_at"),
          InvoiceLimit)
\* lines 219-224
selectNotifications(u) ==
    Limit(OrderDesc({ r \in notifications : r.user_id = u }, "created_at"),
          NotificationLimit)

\* lines 181-190
ApplicationActivity(app) ==
    [id |-> app.id, type |-> "application",
     title |-> getStatusUpdateTitle(app.status), status |-> app.status,
     timestamp |-> app.updated_at,
     actionable |-> app.status = "draft" \/ app.status = "requires_clarification"]
\* lines 204-214; now is the time of the call
InvoiceActivity(invoice, now) ==
    LET isOverdue == /\ getTime(invoice.due_date) < getTime(now)
                     /\ invoice.payment_status = "pending"
    IN [id |-> invoice.id, type |-> "invoice",
        title |-> IF isOverdue THEN "Overdue Payment"
                  ELSE "Invoice " \o invoice.payment_status,
        status |-> invoice.payment_status,
        timestamp |-> invoice.updated_at,
        actionable |-> invoice.payment_status = "pending"]
\* lines 228-235
NotificationActivity(notif) ==
    [id |-> notif.id, type |-> "notification", title |-> notif.title,
     status |-> IF notif.is_read THEN "read" ELSE "unread",
     timestamp |-> notif.created_at, actionable |-> FALSE]

AfterSource_Dropped(ok, activities, items) ==
    IF ok THEN activities \o items ELSE <<>>

\* lines 171-192, 202-216, 226-237: the items of a source are pushed when
\* its query returned no error
AfterSource(ok, activities, items) ==
    IF ok THEN activities \o items ELSE activities

\* Array.prototype.sort with (a, b) => time(b) - time(a): stable, latest
\* first
RECURSIVE InsertActivity(_, _)
InsertActivity(sorted, x) ==
    IF sorted = <<>> THEN <<x>>
    ELSE IF getTime(x.timestamp) > getTime(Head(sorted).timestamp)
         THEN <<x>> \o sorted
         ELSE <<Head(sorted)>> \o InsertActivity(Tail(sorted), x)
RECURSIVE SortLatestFirst(_)
SortLatestFirst(activities) ==
    IF activities = <<>> THEN <<>>
    ELSE InsertActivity(
             SortLatestFirst(SubSeq(activities, 1, Len(activities) - 1)),
             activities[Len(activities)])

sortActivities_Unsorted(activities) == activities

\* line 240
sortActivities(activities) == SortLatestFirst(activities)

\* line 241: slice(0, 6)
slice(activities, n) ==
    SubSeq(activities, 1, IF Len(activities) < n THEN Len(activities) ELSE n)

\* the forEach loops: one activity per returned row, in the order returned
ApplicationActivities(rows) ==
    [ k \in 1..Len(rows) |-> ApplicationActivity(rows[k]) ]
InvoiceActivities(rows, now) ==
    [ k \in 1..Len(rows) |-> InvoiceActivity(rows[k], now) ]
NotificationActivities(rows) ==
    [ k \in 1..Len(rows) |-> NotificationActivity(rows[k]) ]

\* the running fetchRecentActivities: its position, its array of
\* activities and the errors of its three queries
IdleFeed ==
    [pc |-> "mount", activities |-> <<>>, appError |-> FALSE,
     invError |-> FALSE, notifError |-> FALSE]

\* new Date() of line 204: the dashboard is opened after every row was
\* written
FeedNow == StampAt(MaxRows + 1)

\* lines 69-74, 147-169: the effect starts fetchRecentActivities for a
\* signed-in user; the applications query is sent
fetchRecentActivities ==
    /\ feed.pc = "mount"
    /\ user # NoUser
    /\ feed' = [IdleFeed EXCEPT !.pc = "applications"]
    /\ UNCHANGED <<applications, invoices, notifications, recentActivities>>
    /\ UNCHANGED <<storeVars, user, formVars, dmVars, suVars, statVars, invVars>>

\* lines 152-200: the applications query has answered; the invoices query
\* is sent
applicationsFetched ==
    /\ feed.pc = "applications"
    /\ \E ok \in BOOLEAN :
          feed' = [feed EXCEPT
                     !.pc = "invoices",
                     !.appError = ~ok,
                     !.activities = AfterSource(ok, feed.activities,
                        ApplicationActivities(selectApplications(user)))]
    /\ UNCHANGED <<applications, invoices, notifications, recentActivities>>
    /\ UNCHANGED <<storeVars, user, formVars, dmVars, suVars, statVars, invVars>>

\* lines 195-224: the invoices query has answered; the notifications query
\* is sent
invoicesFetched ==
    /\ feed.pc = "invoices"
    /\ \E ok \in BOOLEAN :
          feed' = [feed EXCEPT
                     !.pc = "notifications",
                     !.invError = ~ok,
                     !.activities = AfterSource(ok, feed.activities,
                        InvoiceActivities(selectInvoices(user), FeedNow))]
    /\ UNCHANGED <<applications, invoices, notifications, recentActivities>>
    /\ UNCHANGED <<storeVars, user, formVars, dmVars, suVars, statVars, invVars>>

\* lines 219-241: the notifications query has answered; the activities are
\* sorted and the first six become the feed
notificationsFetched ==
    /\ feed.pc = "notifications"
    /\ \E ok \in BOOLEAN :
          LET activities == AfterSource(ok, feed.activities,
                  NotificationActivities(selectNotifications(user)))
          IN /\ feed' = [feed EXCEPT !.pc = "done", !.notifError = ~ok,
                                     !.activities = activities]
             /\ recentActivities' = slice(sortActivities(activities), FeedLength)
    /\ UNCHANGED <<applications, invoices, notifications>>
    /\ UNCHANGED <<storeVars, user, formVars, dmVars, suVars, statVars, invVars>>

\* ------------------------------------- PublicDashboard, the KPI cards
\* lines 56-61: the initial stats; a text is a sequence of characters
NoStats ==
    [activeApplications |-> 0, approvedPermits |-> 0,
     pendingPayments |-> <<"K", "0">>, documentsCount |-> 0]

\* the running fetchDashboardStats: its position and its locals
IdleKpi ==
    [pc |-> "mount", activeApps |-> 0, approvedApps |-> 0, totalPending |-> 0,
     failed |-> FALSE]

\* lines 95-101: the statuses counted as active
ActiveStatuses ==
    { "submitted", "under_initial_review", "pending_technical_assessment",
      "under_technical_assessment", "requires_clarification" }

\* lines 92-102, 107-111, 116-120, 127-130: the rows the four queries return
selectActiveApps(u) ==
    { r \in applications : r.status \in ActiveStatuses /\ r.user_id = u }
selectApprovedApps(u) ==
    { r \in applications : r.status = "approved" /\ r.user_id = u }
selectPendingInvoices(u) ==
    { r \in invoices :
        r.payment_status \in {"pending", "overdue"} /\ r.user_id = u }
selectDocuments(u) == { d \in documents : d.user_id = u }

\* line 124: invoices.reduce((sum, invoice) => sum + (invoice.amount || 0), 0)
RECURSIVE SumAmounts(_)
SumAmounts(rows) ==
    IF rows = {} THEN 0
    ELSE LET r == CHOOSE q \in rows : TRUE
         IN r.amount + SumAmounts(rows \ {r})
reduceAmounts(rows) == SumAmounts(rows)

\* Number.prototype.toLocaleString of a non-negative integer in an English
\* locale: the decimal digits in groups of three, separated by commas
DigitChar(d) == <<"0", "1", "2", "3", "4", "5", "6", "7", "8", "9">>[d + 1]
RECURSIVE DigitsOf(_)
DigitsOf(n) ==
    IF n < 10 THEN <<DigitChar(n)>>
    ELSE DigitsOf(n \div 10) \o <<DigitChar(n % 10)>>
RECURSIVE GroupsOfThree(_)
GroupsOfThree(ds) ==
    IF Len(ds) <= 3 THEN ds
    ELSE GroupsOfThree(SubSeq(ds, 1, Len(ds) - 3)) \o <<",">>
             \o SubSeq(ds, Len(ds) - 2, Len(ds))
toLocaleString(n) == GroupsOfThree(DigitsOf(n))

\* lines 134-139: the object handed to setStats
StatsOf(activeApps, approvedApps, totalPending, documentRows) ==
    [activeApplications |-> activeApps, approvedPermits |-> approvedApps,
     pendingPayments |-> <<"K">> \o toLocaleString(totalPending),
     documentsCount |-> documentRows]

\* (mutant) the catch block shows the counts fetched so far
KpiFails_Partial ==
    /\ stats' = [stats EXCEPT !.activeApplications = kpi.activeApps,
                              !.approvedPermits = kpi.approvedApps]
    /\ loading' = FALSE
    /\ kpi' = [kpi EXCEPT !.pc = "done", !.failed = TRUE]

\* lines 140-144: the catch block and finally of fetchDashboardStats
KpiFails ==
    /\ UNCHANGED stats
    /\ loading' = FALSE
    /\ kpi' = [kpi EXCEPT !.pc = "done", !.failed = TRUE]

\* lines 69-74 and 89-102: the effect runs (the page is mounted, or the
\* auth context hands out a new user object) and fetchDashboardStats sends
\* its first query
fetchDashboardStats ==
    /\ kpi.pc \in {"mount", "done"}
    /\ user # NoUser
    /\ kpi' = [IdleKpi EXCEPT !.pc = "active"]
    /\ UNCHANGED <<stats, loading>>
    /\ UNCHANGED <<storeVars, user, formVars, dmVars, suVars, feedVars, invVars>>

\* lines 92-111: the active applications have answered
activeAppsFetched ==
    /\ kpi.pc = "active"
    /\ \E activeError \in BOOLEAN :
          IF activeError THEN KpiFails
          ELSE /\ kpi' = [kpi EXCEPT
                            !.pc = "approved",
                            !.activeApps = Cardinality(selectActiveApps(user))]
               /\ UNCHANGED <<stats, loading>>
    /\ UNCHANGED <<storeVars, user, formVars, dmVars, suVars, feedVars, invVars>>

\* lines 107-120: the approved applications have answered
approvedAppsFetched ==
    /\ kpi.pc = "approved"
    /\ \E approvedError \in BOOLEAN :
          IF approvedError THEN KpiFails
          ELSE /\ kpi' = [kpi EXCEPT
                            !.pc = "invoices",
                            !.approvedApps = Cardinality(selectApprovedApps(user))]
               /\ UNCHANGED <<stats, loading>>
    /\ UNCHANGED <<storeVars, user, formVars, dmVars, suVars, feedVars, invVars>>

\* lines 116-130: the pending and overdue invoices have answered
pendingInvoicesFetched ==
    /\ kpi.pc = "invoices"
    /\ \E invoicesError \in BOOLEAN :
          IF invoicesError THEN KpiFails
          ELSE /\ kpi' = [kpi EXCEPT
                            !.pc = "documents",
                            !.totalPending =
                                reduceAmounts(selectPendingInvoices(user))]
               /\ UNCHANGED <<stats, loading>>
    /\ UNCHANGED <<storeVars, user, formVars, dmVars, suVars, feedVars, invVars>>

\* lines 127-144: the documents have answered; setStats and finally
documentsFetched ==
    /\ kpi.pc = "documents"
    /\ \E documentsError \in BOOLEAN :
          IF documentsError THEN KpiFails
          ELSE /\ stats' = StatsOf(kpi.activeApps, kpi.approvedApps,
                                   kpi.totalPending,
                                   Cardinality(selectDocuments(user)))
               /\ loading' = FALSE
               /\ kpi' = [kpi EXCEPT !.pc = "done"]
    /\ UNCHANGED <<storeVars, user, formVars, dmVars, suVars, feedVars, invVars>>

\* ------------------------------------------------------ useInvoices
\* the running call of the hook: the mount effect, or an
\* updateInvoicePaymentStatus with its arguments
IdleInv ==
    [pc |-> "mount", id |-> None, status |-> "", followUpNotes |-> <<>>,
     failed |-> FALSE, calls |-> 0]

\* the values of the argument status, and of the argument followUpNotes
\* (the empty text stands for a call without notes)
PaymentStatuses == {"pending", "paid", "overdue"}
FollowUpNotes == { <<>>, <<"n">> }

\* new Date().toISOString() at the time of the call
InvoiceNow == StampAt(MaxRows + 2)

\* lines 174-186: the columns of the update call
updateData(status, followUpNotes, now) ==
    LET base == [payment_status |-> status, updated_at |-> now]
        paid == IF status = "paid" THEN [paid_date |-> now] ELSE <<>>
        notes == IF followUpNotes # <<>>
                 THEN [follow_up_notes |-> followUpNotes,
                       follow_up_date |-> now]
                 ELSE <<>>
        given == {base, paid, notes}
    IN [ c \in UNION { DOMAIN g : g \in given } |->
           (CHOOSE g \in given : c \in DOMAIN g)[c] ]

\* .update(columns).eq('id', id) applied to the table "invoices"
updatedInvoices(table, id, columns) ==
    { IF r.id = id
      THEN [ c \in DOMAIN r |->
               IF c \in DOMAIN columns THEN columns[c] ELSE r[c] ]
      ELSE r : r \in table }

\* lines 111-144: a row as the list holds it; payment_status is taken from
\* the column status (line 141)
transformedInvoice(invoice) ==
    [invoice EXCEPT !.payment_status = invoice.status]

\* lines 101 and 111-144
RECURSIVE TransformAll(_)
TransformAll(rows) ==
    IF rows = <<>> THEN <<>>
    ELSE <<transformedInvoice(Head(rows))>> \o TransformAll(Tail(rows))
transformedData == TransformAll(OrderDesc(invoices, "created_at"))

\* lines 64-152: fetchInvoices has answered
fetchInvoicesAnswered(error) ==
    /\ invoiceList' = IF error THEN <<>> ELSE transformedData
    /\ invoicesLoading' = FALSE

\* lines 224-229: the effect of the hook; fetchInvoices is called for a
\* profile of the revenue unit or an admin
mountInvoices ==
    /\ inv.pc = "mount"
    /\ \E allowed \in BOOLEAN :
          inv' = [inv EXCEPT !.pc = IF allowed THEN "fetch" ELSE "idle"]
    /\ UNCHANGED <<invoiceList, invoicesLoading>>
    /\ UNCHANGED <<storeVars, user, formVars, dmVars, suVars, feedVars, statVars>>

\* lines 64-152: the fetchInvoices of the effect has answered
mountInvoicesFetched ==
    /\ inv.pc = "fetch"
    /\ \E error \in BOOLEAN : fetchInvoicesAnswered(error)
    /\ inv' = [inv EXCEPT !.pc = "idle"]
    /\ UNCHANGED <<storeVars, user, formVars, dmVars, suVars, feedVars, statVars>>

\* lines 172-191: updateInvoicePaymentStatus is called and sends the update
updateInvoicePaymentStatus ==
    /\ inv.pc = "idle"
    /\ inv.calls < MaxCalls
    /\ \E r \in invoices, status \in PaymentStatuses,
          followUpNotes \in FollowUpNotes :
          inv' = [pc |-> "update", id |-> r.id, status |-> status,
                  followUpNotes |-> followUpNotes, failed |-> FALSE,
                  calls |-> inv.calls + 1]
    /\ UNCHANGED <<invoiceList, invoicesLoading>>
    /\ UNCHANGED <<storeVars, user, formVars, dmVars, suVars, feedVars, statVars>>

\* lines 188-200: the update has answered; on success fetchInvoices is
\* called and the promise of the call resolves, on error it rejects
updateInvoicePaymentStatusAnswered ==
    /\ inv.pc = "update"
    /\ \E error \in BOOLEAN :
          IF error
          THEN /\ inv' = [inv EXCEPT !.pc = "idle", !.failed = TRUE]
               /\ UNCHANGED invoices
          ELSE /\ invoices' = updatedInvoices(invoices, inv.id,
                       updateData(inv.status, inv.followUpNotes, InvoiceNow))
               /\ inv' = [inv EXCEPT !.pc = "refetch"]
    /\ UNCHANGED <<invoiceList, invoicesLoading>>
    /\ UNCHANGED <<applications, notifications, recentActivities, feed>>
    /\ UNCHANGED <<storeVars, user, formVars, dmVars, suVars, statVars>>

\* lines 64-152 and 196: the fetchInvoices of the update has answered
refetchInvoicesAnswered ==
    /\ inv.pc = "refetch"
    /\ \E error \in BOOLEAN :
          /\ fetchInvoicesAnswered(error)
          /\ inv' = [inv EXCEPT !.pc = "idle"]
    /\ UNCHANGED <<storeVars, user, formVars, dmVars, suVars, feedVars, statVars>>

\* ---------------------------------------------------- specifications
InitStores ==
    /\ documents = {}
    /\ storage = {}
    /\ intents = {}
    /\ nextKey = 0

InitForm ==
    /\ formData = EmptyForm
    /\ submitting = FALSE
    /\ uploading = FALSE
    /\ submittedIntentId = None
    /\ currentIntent = NoIntent
    /\ pendingDocuments = <<>>
    /\ toasts = <<>>
    /\ sub = IdleSub
    /\ upl = IdleUpl

InitDm ==
    /\ files = <<>>
    /\ dmUploading = FALSE
    /\ selectedFile = FALSE
    /\ uploadCategory = ""
    /\ dmToast = ""
    /\ dmUp = IdleDmUp
    /\ dmDel = IdleDmDel

\* the page is open in the browsers of the given profiles
InitSuOf(pages) ==
    /\ profiles = [ id \in ProfileIds |-> ActiveProfile(id) ]
    /\ clock = 0
    /\ users = [ a \in pages |-> {} ]
    /\ userToSuspend = [ a \in pages |-> NoProfile ]
    /\ suspendDialogOpen = [ a \in pages |-> FALSE ]
    /\ suspensionReason = [ a \in pages |-> <<>> ]
    /\ suToast = [ a \in pages |-> "" ]
    /\ su = [ a \in pages |-> [IdleSu EXCEPT !.pc = "mount"] ]

InitSu == InitSuOf(AdminPages)

\* the dashboard of a user without applications, invoices, notifications
InitFeed ==
    /\ applications = {}
    /\ invoices = {}
    /\ notifications = {}
    /\ recentActivities = <<>>
    /\ feed = IdleFeed

\* PublicDashboard.tsx lines 56-63
InitStats ==
    /\ stats = NoStats
    /\ loading = TRUE
    /\ kpi = IdleKpi

\* useInvoices.ts lines 60-61
InitInvoices ==
    /\ invoiceList = <<>>
    /\ invoicesLoading = TRUE
    /\ inv = IdleInv

Init ==
    /\ InitStores
    /\ user \in {NoUser, UserId}
    /\ InitForm
    /\ InitDm
    /\ InitSu
    /\ InitFeed
    /\ InitStats
    /\ InitInvoices

Next ==
    \/ SetFormData
    \/ handleSubmit
    \/ handleSubmitInsert
    \/ handleSubmitLink
    \/ handleSubmitDelete
    \/ handleSubmitLinked
    \/ handleSubmitRefreshed
    \/ handleFileUpload
    \/ handleFileUploadOne
    \/ handleFileUploadFetched
    \/ ClearForm
    \/ loadDrafts

Spec == Init /\ [][Next]_vars

\* every request of a running handleSubmit is answered: the store answers
\* or the client reports a network error, and the handler resumes
SubmitAnswered ==
    /\ WF_vars(handleSubmitInsert)
    /\ WF_vars(handleSubmitLink)
    /\ WF_vars(handleSubmitDelete)
    /\ WF_vars(handleSubmitLinked)
    /\ WF_vars(handleSubmitRefreshed)

\* The form without the Clear Form button: its onClick writes formData and
\* submittedIntentId only, which a running handleSubmit does not read (it
\* holds the values of its call) and which do not enable or disable submit
\* steps other than the first.
NextAnswered ==
    \/ SetFormData
    \/ handleSubmit
    \/ handleSubmitInsert
    \/ handleSubmitLink
    \/ handleSubmitDelete
    \/ handleSubmitLinked
    \/ handleSubmitRefreshed
    \/ handleFileUpload
    \/ handleFileUploadOne
    \/ handleFileUploadFetched
    \/ loadDrafts

SpecAnswered == Init /\ [][NextAnswered]_vars /\ SubmitAnswered

\* the DocumentManagement panel
NextDm ==
    \/ handleFileSelect
    \/ handleRemoveFile
    \/ setUploadCategory
    \/ handleUploadWithCategory
    \/ handleUploadStored
    \/ handleUploadInserted
    \/ handleUploadFetched
    \/ handleDelete
    \/ handleDeleteRemoved
    \/ handleDeleteDeleted
    \/ handleDeleteFetched

SpecDm == Init /\ [][NextDm]_vars

\* the user-management page, open in one browser per profile
InitAdmin ==
    /\ InitStores
    /\ user = UserId
    /\ InitForm
    /\ InitDm
    /\ InitSu
    /\ InitFeed
    /\ InitStats
    /\ InitInvoices

NextSu ==
    \/ mountFetchUsers
    \/ onSuspend
    \/ setSuspensionReason
    \/ cancelSuspend
    \/ handleSuspendUser
    \/ handleSuspendUserUpdated
    \/ handleSuspendUserFetched

SpecSu == InitAdmin /\ [][NextSu]_vars

\* the user-management page, open in the browser of the admin and in the
\* browser of the public user
InitViewer ==
    /\ InitStores
    /\ user = UserId
    /\ InitForm
    /\ InitDm
    /\ InitSuOf(ViewerPages)
    /\ InitFeed
    /\ InitStats
    /\ InitInvoices

SpecViewer == InitViewer /\ [][NextSu]_vars

\* The dashboard.  The rows of the user were written one after the other,
\* each into one of the three tables: pattern[p] is the table of the p-th
\* row.  Each row is written in an hour of its own, except that a
\* notification written right after an invoice carries the timestamp of
\* that invoice.  The statuses of the applications run through AllStatuses
\* from the one at index first; the invoices are pending or paid, due when
\* written or later.
Kinds == {"application", "invoice", "notification"}
\* the columns status and amount of the p-th row, an invoice
InvoiceStatusAt(p) == IF p % 2 = 0 THEN "paid" ELSE "pending"
PaymentStatusAt(p) ==
    CASE p % 3 = 0 -> "paid"
      [] p % 3 = 1 -> "pending"
      [] OTHER -> "overdue"
AmountAt(p) == 600 * (p % 3)
Patterns == UNION { [1..n -> Kinds] : n \in 0..MaxRows }
StatusAt(first, p) ==
    AllStatuses[((first + p - 2) % Len(AllStatuses)) + 1]
RowsOf(pattern, kind) == { p \in 1..Len(pattern) : pattern[p] = kind }
WrittenAt(pattern, p) ==
    IF p > 1 /\ pattern[p - 1] = "invoice" /\ pattern[p] = "notification"
    THEN StampAt(p - 1)
    ELSE StampAt(p)

\* the three tables after the rows of a pattern were written
TablesOf(pattern, first) ==
    /\ applications =
          { ApplicationRow(p, StatusAt(first, p), WrittenAt(pattern, p)) :
              p \in RowsOf(pattern, "application") }
    /\ invoices =
          { InvoiceRow(p, InvoiceStatusAt(p), PaymentStatusAt(p), AmountAt(p),
                       IF p % 2 = 0 THEN FeedNow ELSE WrittenAt(pattern, p),
                       WrittenAt(pattern, p)) :
              p \in RowsOf(pattern, "invoice") }
    /\ notifications =
          { NotificationRow(p, p % 2 = 0, WrittenAt(pattern, p)) :
              p \in RowsOf(pattern, "notification") }

InitDashboard ==
    /\ InitStores
    /\ user = UserId
    /\ InitForm
    /\ InitDm
    /\ InitSu
    /\ \E pattern \in Patterns, first \in 1..Len(AllStatuses) :
          /\ Len(pattern) > 2 => first = 1
          /\ TablesOf(pattern, first)
    /\ recentActivities = <<>>
    /\ feed = IdleFeed
    /\ InitStats
    /\ InitInvoices

NextFeed ==
    \/ fetchRecentActivities
    \/ applicationsFetched
    \/ invoicesFetched
    \/ notificationsFetched

SpecFeed == InitDashboard /\ [][NextFeed]_vars

\* The KPI cards of the dashboard of a user who has up to MaxStatRows rows
\* in the three tables and up to MaxFiles documents.
StatPatterns == UNION { [1..n -> Kinds] : n \in 0..MaxStatRows }

InitKpi ==
    /\ \E n \in 0..MaxFiles :
          /\ documents = { Doc(UploadId(k), StorageKey(UserId, k), None,
                               "intent_draft", UserId) : k \in 1..n }
          /\ storage = { StorageKey(UserId, k) : k \in 1..n }
          /\ nextKey = n
    /\ intents = {}
    /\ user = UserId
    /\ InitForm
    /\ InitDm
    /\ InitSu
    /\ \E pattern \in StatPatterns, first \in 1..Len(AllStatuses) :
          TablesOf(pattern, first)
    /\ recentActivities = <<>>
    /\ feed = IdleFeed
    /\ InitStats
    /\ InitInvoices

NextKpi ==
    \/ fetchDashboardStats
    \/ activeAppsFetched
    \/ approvedAppsFetched
    \/ pendingInvoicesFetched
    \/ documentsFetched

SpecKpi == InitKpi /\ [][NextKpi]_vars

\* a revenue page that uses the hook; the table holds up to MaxInvoices
\* invoices and the page calls updateInvoicePaymentStatus up to MaxCalls
\* times
InvoicePatterns == UNION { [1..n -> {"invoice"}] : n \in 0..MaxInvoices }

InitRevenue ==
    /\ InitStores
    /\ user = UserId
    /\ InitForm
    /\ InitDm
    /\ InitSu
    /\ \E pattern \in InvoicePatterns : TablesOf(pattern, 1)
    /\ recentActivities = <<>>
    /\ feed = IdleFeed
    /\ InitStats
    /\ InitInvoices

NextInvoices ==
    \/ mountInvoices
    \/ mountInvoicesFetched
    \/ updateInvoicePaymentStatus
    \/ updateInvoicePaymentStatusAnswered
    \/ refetchInvoicesAnswered

SpecInvoices == InitRevenue /\ [][NextInvoices]_vars

\* one browser tab of a signed-in user who has filled in the form: the
\* DocumentManagement upload dialog and the intent form are used one after
\* the other, a handler of one panel starts when the other panel is idle
FilledForm ==
    [commencement_date |-> <<2024, 12, 31>>, completion_date |-> <<2025, 1, 1>>]

InitWrites ==
    /\ InitStores
    /\ user = UserId
    /\ formData = FilledForm
    /\ submitting = FALSE
    /\ uploading = FALSE
    /\ submittedIntentId = None
    /\ currentIntent = NoIntent
    /\ pendingDocuments = <<>>
    /\ toasts = <<>>
    /\ sub = IdleSub
    /\ upl = IdleUpl
    /\ InitDm
    /\ InitSu
    /\ InitFeed
    /\ InitStats
    /\ InitInvoices

FormIdle == sub.pc = "idle" /\ upl.pc = "idle"

DmUploadIdle == dmUp.pc = "idle"

NextWrites ==
    \/ FormIdle /\ handleFileSelect
    \/ FormIdle /\ setUploadCategory
    \/ FormIdle /\ handleUploadWithCategory
    \/ FormIdle /\ handleUploadStored
    \/ FormIdle /\ handleUploadInserted
    \/ FormIdle /\ handleUploadFetched
    \/ DmUploadIdle /\ handleSubmit
    \/ DmUploadIdle /\ handleSubmitInsert
    \/ DmUploadIdle /\ handleSubmitLink
    \/ DmUploadIdle /\ handleSubmitDelete
    \/ DmUploadIdle /\ handleSubmitLinked
    \/ DmUploadIdle /\ handleSubmitRefreshed
    \/ DmUploadIdle /\ handleFileUpload
    \/ DmUploadIdle /\ handleFileUploadOne
    \/ DmUploadIdle /\ handleFileUploadFetched

SpecWrites == InitWrites /\ [][NextWrites]_vars

\* ---------------------------------------------------------------- claims
\* the later of two date strings, by year, then month, then day
LaterDate(a, b) ==
    \/ a[1] > b[1]
    \/ a[1] = b[1] /\ a[2] > b[2]
    \/ a[1] = b[1] /\ a[2] = b[2] /\ a[3] > b[3]

Referenced(key) == \E d \in documents : d.file_path = key

PendingOf(s) == { s.pending[k] : k \in 1..Len(s.pending) }

\* the link and delete calls of the running handleSubmit are being answered
Linking == sub.pc \in {"link", "delete", "refresh"}

\* every link-create and every draft delete of the running handleSubmit was
\* answered
LinkingDone == sub.pc = "refresh" \/ (sub.pc = "delete" /\ sub.toDelete = {})

\* C1: during and after the draft-linking step of handleSubmit, whatever
\* link-create and draft-delete calls fail, every stored blob of a pending
\* draft is referenced by at least one document record.
C1_BlobNeverUnreferenced ==
    Linking =>
        \A d \in PendingOf(sub) :
            d.file_path \in storage => Referenced(d.file_path)

\* C2: when the link-create of a pending draft failed, the record of that
\* draft and its blob are both still stored when handleSubmit has finished
\* linking.
C2_FailedLinkKeepsDraft ==
    LinkingDone =>
        \A d \in PendingOf(sub) :
            d.id \in sub.failed => (d \in documents /\ d.file_path \in storage)

\* the pending drafts whose link-create succeeded, in the order of the list
LinkedDrafts(s) == SelectSeq(s.pending, LAMBDA d : d.id \notin s.failed)

LinkedStep == sub.pc = "delete" /\ sub'.pc = "refresh"

LinkedKeys(s) == { s.linked[j].file_path : j \in 1..Len(s.linked) }

\* C4 as stated: after linking, the query of the user's 'intent_draft'
\* drafts returns no draft with the storage key of a linked document, and
\* pendingDocuments is empty.
C4_NoDraftOfLinkedDocument ==
    [][LinkedStep =>
        /\ pendingDocuments' = <<>>
        /\ \A d \in Range(fetchUserDraftDocuments("intent_draft"))' :
              d.file_path \notin LinkedKeys(sub)]_vars

\* C4, amended: after linking, pendingDocuments is empty and the query of
\* the user's 'intent_draft' drafts returns a draft with the storage key of
\* a linked document only if the delete of that draft record failed.
C4_OnlyUndeletedDraftsRemain ==
    [][LinkedStep =>
        /\ pendingDocuments' = <<>>
        /\ \A d \in Range(fetchUserDraftDocuments("intent_draft"))' :
              d.file_path \in LinkedKeys(sub) => d.id \in sub.delFailed]_vars

C4_Witness ==
    /\ sub.pc = "refresh"
    /\ Len(sub.linked) = 2
    /\ sub.delFailed = {}
    /\ pendingDocuments = <<>>
    /\ fetchUserDraftDocuments("intent_draft") = <<>>

Titles(ts) == { ts[k].title : k \in 1..Len(ts) }

C7_BlobFailureKeepsRecord ==
    dmDel.storageError =>
        /\ dmDel.calls = <<"storage.remove">>
        /\ dmDel.pc = "idle"
        /\ dmDel.existed => \E d \in documents : d.id = dmDel.id

C7_Witness ==
    /\ dmDel.storageError
    /\ dmDel.existed
    /\ dmDel.key \in storage
    /\ dmToast = "Deletion Failed"

\* handleSubmit passes the validations and requests the insert
AcceptedStep == sub.pc = "idle" /\ sub'.pc = "insert"

\* handleSubmit shows the toast of a failed validation and returns
RejectedStep(title) ==
    /\ sub.pc = "idle"
    /\ toasts' # toasts
    /\ toasts' = <<Toast(title, 0)>>

\* the submit button can be pressed, by an authenticated user
CanSubmit ==
    /\ user # NoUser
    /\ sub.pc = "idle"
    /\ ~submitting
    /\ RequiredFilled(formData)
    /\ Cardinality(intents) < MaxIntents

\* C8: for an authenticated user and a store that accepts the insert, submit
\* succeeds if and only if the completion date is strictly later than the
\* commencement date: only then is the insert requested, a later completion
\* date is never rejected, and every inserted record has such dates.
C8_SubmitIffCompletionLater ==
    /\ [](CanSubmit =>
            (LaterDate(formData.completion_date, formData.commencement_date)
               <=> ENABLED (handleSubmit /\ AcceptedStep)))
    /\ [](\A r \in intents :
            LaterDate(r.completion_date, r.commencement_date))
    /\ [][/\ AcceptedStep =>
               LaterDate(formData.completion_date, formData.commencement_date)
          /\ RejectedStep("Invalid Dates") =>
               ~LaterDate(formData.completion_date,
                          formData.commencement_date)
          /\ (sub.pc = "insert" /\ intents' # intents) =>
               \E r \in intents' :
                   /\ r \notin intents
                   /\ r.commencement_date = sub.form.commencement_date
                   /\ r.completion_date = sub.form.completion_date]_vars

C8_Witness ==
    /\ \E r \in intents : r.completion_date = <<2025, 1, 1>>
                          /\ r.commencement_date = <<2024, 12, 31>>
    /\ formData = EmptyForm

\* C9: a submit rejected by validation (no authenticated user, or a
\* commencement date not before the completion date) issues no store call
\* and changes nothing but the toast: the stores, the submitting flag
\* (false), the form data, pendingDocuments and submittedIntentId are as
\* before.
C9_RejectedSubmitChangesNothing ==
    [][(RejectedStep("Authentication Required") \/ RejectedStep("Invalid Dates"))
         => /\ UNCHANGED <<documents, storage, intents, nextKey>>
            /\ ~submitting /\ ~submitting'
            /\ sub'.pc = "idle"
            /\ UNCHANGED <<formData, pendingDocuments, submittedIntentId,
                           currentIntent, upl, uploading>>]_vars

C9_Witness ==
    /\ toasts = <<Toast("Invalid Dates", 0)>>
    /\ formData.commencement_date = formData.completion_date
    /\ Len(pendingDocuments) = 2
    /\ ~submitting
    /\ intents = {}

\* C10: a successful submit inserts exactly one intent_registrations record,
\* with status 'pending' and the user_id of the acting user; the id of that
\* record is the parent id of every record linked from the pending drafts
\* and of every document uploaded afterwards in the form session.
C10_OneInsertAndItsIdIsTheParent ==
    /\ [](Linking => /\ sub.intentId \in { r.id : r \in intents }
                     /\ \A j \in 1..Len(sub.linked) :
                           sub.linked[j].intent_registration_id = sub.intentId)
    /\ [](\A r \in intents : r.status = "pending" /\ r.user_id = user)
    /\ [](\A r1, r2 \in intents : r1.id = r2.id => r1 = r2)
    /\ [][/\ intents' # intents =>
               /\ sub.pc = "insert" /\ sub'.pc # "insert"
               /\ \E r \in intents' :
                     /\ r \notin intents
                     /\ intents' = intents \cup {r}
                     /\ r.status = "pending"
                     /\ r.user_id = user /\ user # NoUser
                     /\ submittedIntentId' = r.id
                     /\ sub'.pc # "idle" => sub'.intentId = r.id
          /\ sub.pc # "insert" => intents' = intents
          /\ (upl.pc = "idle" /\ upl'.pc = "files") =>
                upl'.intentId = submittedIntentId
          /\ (upl.pc = "files" /\ upl' # upl) =>
                \A d \in documents' \ documents :
                    d.intent_registration_id = upl.intentId]_vars

C10_Witness ==
    /\ sub.pc = "refresh"
    /\ Len(sub.linked) > 0
    /\ sub.intentId = submittedIntentId
    /\ \E d \in documents :
          /\ d.intent_registration_id = sub.intentId
          /\ d \notin Range(sub.linked)

\* handleSubmit receives the error of the intent insert (line 88)
InsertFailedStep ==
    /\ sub.pc = "insert" /\ sub'.pc # "insert"
    /\ intents' = intents

\* C11: when the insert of the intent fails, handleSubmit ends without a
\* retry: no link-create and no draft delete is issued, every document
\* record and blob is unchanged, submittedIntentId and currentIntent are not
\* set, the form fields and the pending drafts are kept, the submitting flag
\* is cleared and the toast 'Submission Failed' is shown.
C11_FailedInsertAbortsSubmit ==
    [][InsertFailedStep =>
         /\ sub' = IdleSub
         /\ UNCHANGED <<documents, storage, nextKey>>
         /\ UNCHANGED <<submittedIntentId, currentIntent, formData,
                        pendingDocuments>>
         /\ toasts' = Append(toasts, Toast("Submission Failed", 0))
         /\ ~submitting']_vars

C11_Witness ==
    /\ sub.pc = "idle"
    /\ toasts = <<Toast("Submission Failed", 0)>>
    /\ intents = {}
    /\ submittedIntentId = None
    /\ RequiredFilled(formData)
    /\ Len(pendingDocuments) = 2
    /\ Cardinality({ d \in documents : d.intent_registration_id = None }) = 2
    /\ Cardinality(storage) = 2
    /\ ~submitting

\* every row the table "profiles" may hold for the three users
AnyProfile ==
    { Profile(id, b, at, by, r) :
        id \in ProfileIds, b \in BOOLEAN, at \in 0..MaxClock,
        by \in {None} \cup { AuthIdOf(a) : a \in Sessions },
        r \in {NullText} \cup Reasons }

\* handleSuspendUser of page a shows the toast and returns
SuRejectedStep(a, title) == suToast[a] # title /\ suToast'[a] = title

\* the store applies the update call of page a
SuUpdatedStep(a) == su[a].pc = "update" /\ su'[a].pc = "fetch"

\* C12: a request whose target is a super_admin is refused whatever the
\* stored suspension state of the target and whatever the reason text: the
\* toast 'Cannot suspend Super Admin' is shown, no update call is issued
\* (none is ever in flight for a super_admin), and the table is unchanged.
C12_SuperAdminRequestAlwaysRefused ==
    /\ \A u \in AnyProfile, reason \in Reasons :
          u.user_type = "super_admin" =>
              SuspendOutcome(u, reason) = "Cannot suspend Super Admin"
    /\ [](\A a \in Sessions :
             su[a].pc \in {"update", "fetch"} =>
                 UserTypeOf(su[a].id) # "super_admin")
    /\ [][\A a \in Sessions :
            /\ SuRejectedStep(a, "Cannot suspend Super Admin") =>
                  /\ userToSuspend[a].user_type = "super_admin"
                  /\ UNCHANGED <<profiles, clock, su>>
            /\ (/\ su[a].pc = "idle"
                /\ suspendDialogOpen[a]
                /\ userToSuspend[a].user_type = "super_admin") =>
                  /\ su'[a].pc = "idle"
                  /\ profiles'[userToSuspend[a].id]
                         = profiles[userToSuspend[a].id]]_vars

C12_Witness ==
    \E a \in Sessions :
        /\ suToast[a] = "Cannot suspend Super Admin"
        /\ userToSuspend[a].user_type = "super_admin"
        /\ suspensionReason[a] = <<"x", " ">>
        /\ profiles[userToSuspend[a].id] = ActiveProfile(userToSuspend[a].id)
        /\ su[a].pc = "idle"

\* C13: a request to suspend a user who is neither suspended nor super_admin
\* with a reason that is empty after trimming shows 'Reason Required' and
\* issues no update call: the table is unchanged and every suspending update
\* in flight carries a non-empty reason.  A request to reactivate a
\* suspended user goes to the store whatever the reason text.
C13_SuspendNeedsReason ==
    /\ \A u \in AnyProfile, reason \in Reasons :
          u.user_type # "super_admin" =>
              /\ (~u.is_suspended /\ trim(reason) = <<>>) =>
                     SuspendOutcome(u, reason) = "Reason Required"
              /\ u.is_suspended => SuspendOutcome(u, reason) = "update"
    /\ [](\A a \in Sessions :
             (su[a].pc = "update" /\ su[a].update.is_suspended) =>
                 trim(su[a].update.suspension_reason) # <<>>)
    /\ [][\A a \in Sessions :
            SuRejectedStep(a, "Reason Required") =>
                /\ ~userToSuspend[a].is_suspended
                /\ trim(suspensionReason[a]) = <<>>
                /\ UNCHANGED <<profiles, clock, su>>]_vars

C13_Witness ==
    \E a, b \in Sessions :
        /\ suToast[a] = "Reason Required"
        /\ suspensionReason[a] = <<" ">>
        /\ userToSuspend[a].user_type = "admin"
        /\ ~profiles[userToSuspend[a].id].is_suspended
        /\ su[b].pc = "update"
        /\ ~su[b].update.is_suspended
        /\ suspensionReason[b] = <<>>

\* C14: the update of a successful suspension writes the four columns of
\* the target row together: is_suspended = true, suspended_at = the time of
\* the request, suspended_by = the user_id of the acting admin's profile,
\* suspension_reason = the text in the reason field; no other row changes.
C14_SuspensionWritesAllFour ==
    [][\A a \in Sessions :
         (SuUpdatedStep(a) /\ su[a].update.is_suspended) =>
             LET row == profiles'[su[a].id]
             IN /\ row.is_suspended
                /\ row.suspended_at # None
                /\ row.suspended_by = AuthIdOf(a)
                /\ row.suspension_reason = suspensionReason[a]
                /\ row.suspension_reason # NullText
                /\ \A id \in ProfileIds \ {su[a].id} :
                       profiles'[id] = profiles[id]]_vars

C14_Witness ==
    \E a \in Sessions :
        /\ su[a].pc = "fetch"
        /\ profiles[su[a].id].is_suspended
        /\ profiles[su[a].id].suspended_by = AuthIdOf(a)
        /\ profiles[su[a].id].suspension_reason = <<"x", " ">>
        /\ profiles[su[a].id].suspended_at = clock

\* C15: the update of a successful reactivation writes is_suspended = false
\* and null into suspension_reason, suspended_at and suspended_by of the
\* target row, together.
C15_ReactivationClearsAudit ==
    [][\A a \in Sessions :
         (SuUpdatedStep(a) /\ ~su[a].update.is_suspended) =>
             LET row == profiles'[su[a].id]
             IN /\ ~row.is_suspended
                /\ row.suspension_reason = NullText
                /\ row.suspended_at = None
                /\ row.suspended_by = None]_vars

C15_Witness ==
    \E a \in Sessions :
        /\ su[a].pc = "fetch"
        /\ ~su[a].update.is_suspended
        /\ userToSuspend[a].is_suspended
        /\ userToSuspend[a].suspension_reason = <<"x", " ">>
        /\ profiles[su[a].id] = ActiveProfile(su[a].id)

\* the three audit columns of a row are all non-null / all null
AuditSet(row) ==
    /\ row.suspended_at # None
    /\ row.suspended_by # None
    /\ row.suspension_reason # NullText
AuditClear(row) ==
    /\ row.suspended_at = None
    /\ row.suspended_by = None
    /\ row.suspension_reason = NullText

\* C16: in every state of the table, a row has is_suspended = true exactly
\* when its three audit columns are all non-null, and a row that is not
\* suspended has all three null.
C16_SuspensionFieldsConsistent ==
    \A id \in ProfileIds :
        /\ profiles[id].is_suspended <=> AuditSet(profiles[id])
        /\ ~profiles[id].is_suspended => AuditClear(profiles[id])

C16_Witness ==
    /\ \E id \in ProfileIds : profiles[id].is_suspended
    /\ \E a \in Sessions : suToast[a] = "Error"
    /\ \E a \in Sessions : suToast[a] = "Reason Required"
    /\ clock = 2

\* C17: no super_admin row is ever suspended, whichever admins issue
\* requests and however old their user lists are.
C17_SuperAdminNeverSuspended ==
    \A id \in ProfileIds :
        profiles[id].user_type = "super_admin" => ~profiles[id].is_suspended

C17_Witness ==
    /\ \A a \in Sessions :
          /\ suspendDialogOpen[a]
          /\ userToSuspend[a].user_type = "super_admin"
          /\ userToSuspend[a] \in users[a]
    /\ \E a \in Sessions : users[a] # { profiles[id] : id \in ProfileIds }
    /\ clock = 2

\* the time of a row of one of the three tables
RowTime(r) ==
    getTime(IF "created_at" \in DOMAIN r THEN r.created_at ELSE r.updated_at)

\* the rows of a table that are among its n most recent
MostRecent(T, n) ==
    { r \in T :
        Cardinality({ q \in T :
            \/ RowTime(q) > RowTime(r)
            \/ RowTime(q) = RowTime(r) /\ q.id > r.id }) < n }

\* the rows a query of the finished fetchRecentActivities returned
FetchedRows(kind) ==
    CASE kind = "application" ->
           IF feed.appError THEN {} ELSE MostRecent(applications, 5)
      [] kind = "invoice" ->
           IF feed.invError THEN {} ELSE MostRecent(invoices, 3)
      [] kind = "notification" ->
           IF feed.notifError THEN {} ELSE MostRecent(notifications, 3)

FeedItems == { recentActivities[k] : k \in 1..Len(recentActivities) }
ItemTime(x) == getTime(x.timestamp)
Least(a, b) == IF a < b THEN a ELSE b

\* the item of the feed made of row r of the table of the given kind
InFeed(r, kind) ==
    \E x \in FeedItems :
        x.id = r.id /\ x.type = kind /\ ItemTime(x) = RowTime(r)

StatusEnum ==
    { "draft", "submitted", "under_initial_review",
      "initial_assessment_passed", "pending_technical_assessment",
      "under_technical_assessment", "requires_clarification", "approved",
      "rejected" }

\* C20: every status of the enum has a title of its own, different from the
\* default; every other string has the default title 'Application
\* Updated'; the application items of the feed carry the title of their
\* status.
C20_TitleMappingExhaustive ==
    /\ \A st \in StatusEnum : getStatusUpdateTitle(st) # "Application Updated"
    /\ \A st, tt \in StatusEnum :
          st # tt => getStatusUpdateTitle(st) # getStatusUpdateTitle(tt)
    /\ \A st \in Range(AllStatuses) \ StatusEnum :
          getStatusUpdateTitle(st) = "Application Updated"
    /\ StatusEnum \subseteq Range(AllStatuses)
    /\ \A x \in FeedItems :
          x.type = "application" =>
              /\ x.status \in StatusEnum <=> x.title # "Application Updated"
              /\ \A y \in FeedItems :
                    (y.type = "application" /\ y.title = x.title
                       /\ x.status \in StatusEnum) => y.status = x.status

C20_Witness ==
    /\ feed.pc = "done"
    /\ \E x, y \in FeedItems :
          /\ x.type = "application" /\ y.type = "application"
          /\ x.status = "rejected" /\ x.title = "Application Rejected"
          /\ y.status = "" /\ y.title = "Application Updated"

\* ------------------------------------------------------------ C21
\* a link-create of the running handleSubmit was answered for every pending
\* draft
LinkStepCompleted ==
    \A k \in 1..Len(sub.pending) :
        \/ sub.pending[k].id \in sub.failed
        \/ \E l \in Range(sub.linked) :
              l.file_path = sub.pending[k].file_path

\* C21: the store writes for a document come in the order blob, document
\* record, link record, draft delete: the upload dialog inserts the record
\* of a key only when the blob of that key is stored, a failed blob upload
\* ends the upload without an insert, a link record is written while the
\* draft record is still stored, and handleSubmit removes no draft record
\* before the link-create of every pending draft was answered.
C21_BlobThenRecordThenLinkThenDelete ==
    [][ /\ (dmUp.pc # "idle" /\ documents' # documents) =>
              /\ dmUp.pc = "insert"
              /\ dmUp.key \in storage
              /\ \E d \in documents' : /\ documents' = documents \cup {d}
                                       /\ d.file_path = dmUp.key
        /\ (dmUp.pc = "upload" /\ dmUp' # dmUp /\ dmUp.key \notin storage') =>
              (dmUp'.pc = "idle" /\ documents' = documents)
        /\ (sub.pc = "link" /\ documents' # documents) =>
              /\ sub.pending[sub.i] \in documents
              /\ sub.pending[sub.i].file_path \in storage
        /\ (sub.pc # "idle" /\ documents \ documents' # {}) =>
              (sub.pc = "delete" /\ LinkStepCompleted)
      ]_vars

\* the dialog stored a blob and then its record, and a submission linked a
\* draft and then removed the draft record
C21_Witness ==
    /\ \E d \in documents : /\ d.document_type \in uploadCategories
                             /\ d.file_path \in storage
    /\ sub.pc = "refresh"
    /\ Len(sub.linked) = 1
    /\ sub.pending[1] \notin documents
    /\ sub.linked[1] \in documents

\* ------------------------------------------------------------ C22
\* a handleDelete of a stored record has completed
DeleteCompleted == dmDel.pc = "idle" /\ dmDel.id # <<>> /\ dmDel.existed

\* C22: after handleDelete completes, under any failure of either store
\* call, the document record exists if and only if its blob is still in the
\* object store.
C22_RecordIffBlobAfterDelete ==
    DeleteCompleted =>
        ((\E d \in documents : d.id = dmDel.id) <=> dmDel.key \in storage)

\* ------------------------------------------------------------ C26
\* no handleUploadWithCategory is in flight (every started one completed)
UploadCompleted == dmUp.pc = "idle"

\* C26: after handleUploadWithCategory completes, whether it succeeded or
\* failed at either step, every blob the panel wrote to the object store is
\* referenced by a document record of the uploading user whose file_path is
\* the key of the blob, and the key starts with the id of that user.
C26_UploadedBlobHasItsRecord ==
    UploadCompleted =>
        \A key \in storage :
            /\ key[1] = user
            /\ \E d \in documents : d.file_path = key /\ d.user_id = user

\* ------------------------------------------------------------ C23
\* the four suspension columns of a row or of an update call
SuspensionFields(r) ==
    <<r.is_suspended, r.suspended_at, r.suspended_by, r.suspension_reason>>

\* C23: when two admins act on the same user from their own, possibly
\* stale, snapshots, the last write wins as a whole: the table changes only
\* when the store applies an update call, the four suspension columns of
\* the target row are then exactly the four columns of that call (the other
\* rows and columns are untouched), and the is_suspended the call writes is
\* the negation of the value in the snapshot of the page, whatever is
\* stored.
C23_LastWriteWinsAsAWhole ==
    [][ /\ profiles' # profiles => \E a \in Sessions : SuUpdatedStep(a)
        /\ \A a \in Sessions :
              SuUpdatedStep(a) =>
                  /\ SuspensionFields(profiles'[su[a].id])
                         = SuspensionFields(su[a].update)
                  /\ \A id \in ProfileIds :
                         id # su[a].id => profiles'[id] = profiles[id]
                  /\ profiles'[su[a].id].user_type
                         = profiles[su[a].id].user_type
                  /\ su[a].update.is_suspended
                         = ~userToSuspend[a].is_suspended
                  /\ userToSuspend[a] \in users[a]
      ]_vars

\* both pages suspended user 3 from a snapshot in which the user was
\* active; the call issued first was applied last and the row holds all
\* four columns of that call
C23_Witness ==
    /\ su[1].pc = "fetch" /\ su[2].pc = "fetch"
    /\ su[1].id = 3 /\ su[2].id = 3
    /\ su[1].update.is_suspended /\ su[2].update.is_suspended
    /\ su[1].update.suspended_at < su[2].update.suspended_at
    /\ SuspensionFields(profiles[3]) = SuspensionFields(su[1].update)
    /\ SuspensionFields(profiles[3]) # SuspensionFields(su[2].update)

\* ------------------------------------------------------------ C24
\* the table, the limit and the error flag of a source of the feed
SourceTable(kind) ==
    CASE kind = "application" -> applications
      [] kind = "invoice" -> invoices
      [] kind = "notification" -> notifications
SourceLimit(kind) ==
    CASE kind = "application" -> AppLimit
      [] kind = "invoice" -> InvoiceLimit
      [] kind = "notification" -> NotificationLimit
SourceFailed(kind) ==
    CASE kind = "application" -> feed.appError
      [] kind = "invoice" -> feed.invError
      [] kind = "notification" -> feed.notifError

\* the positions of the candidates that carry a type
CandidatesOf(kind) ==
    { k \in 1..Len(feed.activities) : feed.activities[k].type = kind }

KpiFinishes == kpi.pc \notin {"mount", "done"} /\ kpi'.pc = "done"

\* the four values counted from the tables
StatsOfTables ==
    StatsOf(Cardinality({ r \in applications : r.status \in ActiveStatuses }),
            Cardinality({ r \in applications : r.status = "approved" }),
            SumAmounts({ r \in invoices : r.payment_status # "paid" }),
            Cardinality(documents))

\* C30: fetchDashboardStats is all-or-nothing: the stats change only in the
\* step in which the fourth query answers without an error after the three
\* before it did, and then all four values are replaced by those of the
\* four queries; a run in which a query returns an error leaves the stats
\* as they were; in every case loading is false once the run has finished.
C30_StatsAllOrNothing ==
    /\ toLocaleString(0) = <<"0">>
    /\ toLocaleString(600) = <<"6", "0", "0">>
    /\ toLocaleString(1200) = <<"1", ",", "2", "0", "0">>
    /\ [][ /\ stats' # stats =>
                /\ KpiFinishes
                /\ kpi.pc = "documents"
                /\ ~kpi'.failed
           /\ (KpiFinishes /\ ~kpi'.failed) => stats' = StatsOfTables
           /\ (KpiFinishes /\ kpi'.failed) => stats' = stats
           /\ KpiFinishes => ~loading'
           /\ (kpi.pc = "done" /\ kpi'.pc # "done") => loading' = loading
         ]_vars
    /\ [](kpi.pc = "done" => ~loading)

\* the stats of an earlier run are shown after a later run failed
C30_Witness ==
    /\ kpi.pc = "done"
    /\ kpi.failed
    /\ ~loading
    /\ stats = StatsOfTables
    /\ stats.activeApplications = 1
    /\ stats.approvedPermits = 1
    /\ stats.pendingPayments = <<"K", "1", ",", "8", "0", "0">>
    /\ stats.documentsCount = 2

\* ------------------------------------------------------------ C25
\* an updateInvoicePaymentStatus succeeded and the fetchInvoices it started
\* has answered
UpdateRefetched == inv.pc = "idle" /\ inv.calls > 0 /\ ~inv.failed

\* C25: after updateInvoicePaymentStatus(id, s) succeeded and the refetch
\* it triggers has completed, the invoice with that id in the invoices list
\* of the hook has payment_status equal to s.
C25_ListShowsWrittenPaymentStatus ==
    UpdateRefetched =>
        \A k \in 1..Len(invoiceList) :
            invoiceList[k].id = inv.id =>
                invoiceList[k].payment_status = inv.status

\* ------------------------------------------------------------ C27
\* page a sends an update call of the suspension columns
SuUpdateSentStep(a) == su[a].pc = "idle" /\ su'[a].pc = "update"

IsAdmin(p) == p.user_type = "admin" \/ p.user_type = "super_admin"

\* C27: an update of the suspension columns is issued only by a page whose
\* profile is admin or super_admin: the page of any other profile never has
\* a loaded user list, so it never has a suspension target or an open
\* dialog, it never sends an update call, and the table changes only by the
\* call of an admin page.
C27_OnlyAdminsUpdateSuspension ==
    /\ [](\A a \in Sessions :
            ~IsAdmin(profileOf(a)) =>
                /\ users[a] = {}
                /\ userToSuspend[a] = NoProfile
                /\ ~suspendDialogOpen[a]
                /\ su[a].pc \in {"mount", "idle"})
    /\ [][ /\ \A a \in Sessions :
                SuUpdateSentStep(a) => IsAdmin(profileOf(a))
           /\ profiles' # profiles =>
                \E a \in Sessions : SuUpdatedStep(a) /\ IsAdmin(profileOf(a))
         ]_vars

\* the public user was refused the list, and the admin has suspended that
\* user
C27_Witness ==
    /\ 3 \in Sessions
    /\ ~IsAdmin(profileOf(3))
    /\ su[3].pc = "idle"
    /\ suToast[3] = "Access Denied"
    /\ users[3] = {}
    /\ su[2].pc = "fetch"
    /\ profiles[3].is_suspended
    /\ profiles[3].suspended_by = AuthIdOf(2)

\* ------------------------------------------------------------ C28
\* handleFileUpload creates the record of a file with this step
FileCreatedStep == upl.pc = "files" /\ documents' # documents

\* the record the step creates
CreatedRecord == CHOOSE d \in documents' : d \notin documents

\* C28: handleFileUpload routes by the form state: a file uploaded while
\* submittedIntentId is set is created as a document linked to that intent,
\* never as a draft; a file uploaded while it is unset is created as an
\* 'intent_draft' draft, and the run that uploaded drafts ends by
\* refreshing pendingDocuments from the store; after Clear Form has reset
\* submittedIntentId, uploads create drafts again.
C28_UploadRoutesByFormState ==
    [][ /\ (FileCreatedStep /\ submittedIntentId # None) =>
              CreatedRecord.intent_registration_id = submittedIntentId
        /\ (FileCreatedStep /\ submittedIntentId = None) =>
              /\ CreatedRecord.intent_registration_id = None
              /\ CreatedRecord.document_type = "intent_draft"
        /\ (upl.pc = "fetch" /\ upl'.pc = "idle") =>
              pendingDocuments' = fetchUserDraftDocuments("intent_draft")
      ]_vars

\* ------------------------------------------------------------ C29
\* a handleSubmit that passed the validations is in flight
SubmitInFlight == sub.pc # "idle"

\* a handleSubmit passes the validations and sends the insert
SubmitStartedStep == sub.pc = "idle" /\ sub'.pc = "insert"

\* C29: submitting is true exactly while a handleSubmit that passed the
\* validations is in flight; every handleSubmit that sets it resets it, on
\* success and on any failure, once its requests are answered; and while it
\* is true the submit control is disabled, so no second handleSubmit starts
\* and no intent is inserted but by the one in flight.
C29_SubmittingOnlyWhileInFlight ==
    /\ [](submitting <=> SubmitInFlight)
    /\ (submitting ~> ~submitting)
    /\ [][ /\ SubmitStartedStep => (~submitting /\ submitting')
           /\ (SubmitInFlight /\ ~SubmitInFlight') => ~submitting'
           /\ (submitting /\ intents' # intents) =>
                 (sub.pc = "insert" /\ Cardinality(intents') = Cardinality(intents) + 1)
         ]_vars

\* a failed submit has reset the flag after the flag was set
C29_Witness ==
    /\ ~submitting
    /\ sub.pc = "idle"
    /\ intents = {}
    /\ Len(toasts) = 1
    /\ toasts[1].title = "Submission Failed"
====
